---------------------------- MODULE Spec2Model ----------------------------
(***************************************************************************)
(* A model of the symbol sub-stream reader of the pdb crate                *)
(* (src/symbol/mod.rs): the Symbol handle, the SymbolIter state machine    *)
(* over a borrowed byte buffer, the SymbolTable facade that constructs     *)
(* iterators, and the kind classification / dispatch of SymbolData.        *)
(*                                                                         *)
(* Bytes are naturals in 0..255, a buffer is a sequence of bytes, and a    *)
(* cursor is the number of bytes already consumed (0-based offset).        *)
(***************************************************************************)
EXTENDS Integers, Sequences, FiniteSets, TLC

VARIABLES
    stream,   \* SymbolTable.stream: the immutable bytes of the sub-stream
    layout,   \* ghost: the record bodies the stream was written from
    iters,    \* the SymbolIter values alive over the stream, by handle
    pc,       \* position of iterator 1 inside next(): "idle" or "loop"
    sym,      \* a Symbol handle under inspection
    parsed,   \* result of the last Symbol::parse() on sym
    scope,    \* result of the last starts_scope() / ends_scope() on sym
    named     \* result of SymbolData::name() on the value in parsed

vars == <<stream, layout, iters, pc, sym, parsed, scope, named>>

---------------------------------------------------------------------------
(* Bounds of the model.                                                    *)

\* Largest number of records written into a stream walked by one iterator.
MaxRecords == 3
\* Largest number of records in a stream shared by two iterators.
MaxShared == 2
\* Length of the longest payload of a parsed symbol.
MaxPayload == 40
\* Largest count of a function-list record.
MaxFuncs == 3
\* Largest number of gap entries written after the fixed fields.
MaxGaps == 2

---------------------------------------------------------------------------
(* The symbol kind constants (constants.rs; the values are those of        *)
(* cvinfo.h, written in decimal: S_END = 0x0006, S_ALIGN = 0x0402,         *)
(* S_ST_MAX = 0x1100, S_OBJNAME = 0x1101, ...).                            *)

K ==
    [ S_END |-> 6, S_SKIP |-> 7, S_OBJNAME_ST |-> 9, S_LPROC16 |-> 260,
      S_GPROC16 |-> 261, S_THUNK16 |-> 262, S_BLOCK16 |-> 263,
      S_WITH16 |-> 264, S_BPREL32_16T |-> 512, S_THUNK32_ST |-> 518,
      S_BLOCK32_ST |-> 519, S_WITH32_ST |-> 520, S_LABEL32_ST |-> 521,
      S_PROCREF_ST |-> 1024, S_DATAREF_ST |-> 1025, S_ALIGN |-> 1026,
      S_LPROCREF_ST |-> 1027, S_OEM |-> 1028, S_REGISTER_ST |-> 4097,
      S_CONSTANT_ST |-> 4098, S_UDT_ST |-> 4099, S_COBOLUDT_ST |-> 4100,
      S_MANYREG_ST |-> 4101, S_BPREL32_ST |-> 4102, S_LDATA32_ST |-> 4103,
      S_GDATA32_ST |-> 4104, S_PUB32_ST |-> 4105, S_LPROC32_ST |-> 4106,
      S_GPROC32_ST |-> 4107, S_LTHREAD32_ST |-> 4110,
      S_GTHREAD32_ST |-> 4111, S_LPROCMIPS_ST |-> 4112,
      S_GPROCMIPS_ST |-> 4113, S_FRAMEPROC |-> 4114, S_COMPILE2_ST |-> 4115,
      S_MANYREG2_ST |-> 4116, S_LPROCIA64_ST |-> 4117,
      S_GPROCIA64_ST |-> 4118, S_GMANPROC_ST |-> 4122,
      S_LMANPROC_ST |-> 4123, S_LMANDATA_ST |-> 4128, S_GMANDATA_ST |-> 4129,
      S_MANSLOT_ST |-> 4132, S_UNAMESPACE_ST |-> 4137, S_ST_MAX |-> 4352,
      S_OBJNAME |-> 4353, S_THUNK32 |-> 4354, S_BLOCK32 |-> 4355,
      S_WITH32 |-> 4356, S_LABEL32 |-> 4357, S_REGISTER |-> 4358,
      S_CONSTANT |-> 4359, S_UDT |-> 4360, S_COBOLUDT |-> 4361,
      S_MANYREG |-> 4362, S_BPREL32 |-> 4363, S_LDATA32 |-> 4364,
      S_GDATA32 |-> 4365, S_PUB32 |-> 4366, S_LPROC32 |-> 4367,
      S_GPROC32 |-> 4368, S_REGREL32 |-> 4369, S_LTHREAD32 |-> 4370,
      S_GTHREAD32 |-> 4371, S_LPROCMIPS |-> 4372, S_GPROCMIPS |-> 4373,
      S_COMPILE2 |-> 4374, S_MANYREG2 |-> 4375, S_LPROCIA64 |-> 4376,
      S_GPROCIA64 |-> 4377, S_LMANDATA |-> 4380, S_GMANDATA |-> 4381,
      S_MANSLOT |-> 4384, S_UNAMESPACE |-> 4388, S_PROCREF |-> 4389,
      S_DATAREF |-> 4390, S_LPROCREF |-> 4391, S_ANNOTATIONREF |-> 4392,
      S_TOKENREF |-> 4393, S_GMANPROC |-> 4394, S_LMANPROC |-> 4395,
      S_TRAMPOLINE |-> 4396, S_MANCONSTANT |-> 4397, S_SEPCODE |-> 4402,
      S_SECTION |-> 4406, S_COFFGROUP |-> 4407, S_EXPORT |-> 4408,
      S_CALLSITEINFO |-> 4409, S_FRAMECOOKIE |-> 4410, S_COMPILE3 |-> 4412,
      S_ENVBLOCK |-> 4413, S_LOCAL |-> 4414, S_DEFRANGE |-> 4415,
      S_DEFRANGE_SUBFIELD |-> 4416, S_DEFRANGE_REGISTER |-> 4417,
      S_DEFRANGE_FRAMEPOINTER_REL |-> 4418,
      S_DEFRANGE_SUBFIELD_REGISTER |-> 4419,
      S_DEFRANGE_FRAMEPOINTER_REL_FULL_SCOPE |-> 4420,
      S_DEFRANGE_REGISTER_REL |-> 4421, S_LPROC32_ID |-> 4422,
      S_GPROC32_ID |-> 4423, S_GPROCMIPS_ID |-> 4425,
      S_GPROCIA64_ID |-> 4427, S_BUILDINFO |-> 4428, S_INLINESITE |-> 4429,
      S_INLINESITE_END |-> 4430, S_PROC_ID_END |-> 4431,
      S_LPROC32_DPC |-> 4437, S_LPROC32_DPC_ID |-> 4438,
      S_ARMSWITCHTABLE |-> 4441, S_CALLEES |-> 4442, S_CALLERS |-> 4443,
      S_INLINESITE2 |-> 4445, S_HEAPALLOCSITE |-> 4446, S_INLINEES |-> 4456 ]

---------------------------------------------------------------------------
(* ParseBuffer: a cursor over a borrowed slice (common.rs).  A read yields *)
(* ok/val and the cursor after it; a failed read leaves the cursor alone.  *)

Min(a, b) == IF a <= b THEN a ELSE b

buf_len(buf, pos) == Len(buf) - pos

buf_is_empty(buf, pos) == buf_len(buf, pos) = 0

buf_seek(buf, p) == Min(p, Len(buf))

buf_parse_u16(buf, pos) ==
    IF buf_len(buf, pos) >= 2
    THEN [ok |-> TRUE, val |-> buf[pos + 1] + 256 * buf[pos + 2], pos |-> pos + 2]
    ELSE [ok |-> FALSE, val |-> 0, pos |-> pos]

buf_take(buf, pos, n) ==
    IF buf_len(buf, pos) >= n
    THEN [ok |-> TRUE, val |-> SubSeq(buf, pos + 1, pos + n), pos |-> pos + n]
    ELSE [ok |-> FALSE, val |-> <<>>, pos |-> pos]

\* parse_cstring: the bytes up to the next NUL, which is consumed too; an
\* error when no NUL is left.
buf_parse_cstring(buf, pos) ==
    LET nuls == {i \in (pos + 1)..Len(buf) : buf[i] = 0}
    IN  IF nuls = {} THEN [ok |-> FALSE, val |-> <<>>, pos |-> pos]
        ELSE LET nul == CHOOSE i \in nuls : \A j \in nuls : i <= j
             IN  [ok |-> TRUE, val |-> SubSeq(buf, pos + 1, nul - 1), pos |-> nul]

\* parse_u8_pascal_string: one length byte, then that many bytes.
buf_parse_u8_pascal_string(buf, pos) ==
    IF buf_len(buf, pos) < 1 THEN [ok |-> FALSE, val |-> <<>>, pos |-> pos]
    ELSE buf_take(buf, pos + 1, buf[pos + 1])

\* The bytes a fixed-width value takes in the stream: the integers, the
\* 32-bit indexes and tokens, an (offset: u32, section: u16) pair, and the
\* flag sets read from one integer.
Width(type) ==
    CASE type \in {"u8", "ProcedureFlags"} -> 1
      [] type \in {"u16", "Register", "RangeFlags", "LocalVariableFlags"} -> 2
      [] type \in {"u32", "i32", "SymbolIndex", "TypeIndex", "IdIndex",
                  "COMToken", "SeparatedCodeFlags", "AddressGap"} -> 4
      [] type \in {"PdbInternalSectionOffset"} -> 6
      [] type \in {"AddressRange"} -> 8

\* buf.parse::<T>() for a fixed-width T, the value left aside.
buf_parse(buf, pos, type) ==
    IF buf_len(buf, pos) >= Width(type)
    THEN [ok |-> TRUE, pos |-> pos + Width(type)]
    ELSE [ok |-> FALSE, pos |-> pos]

\* The value of little-endian bytes read as an unsigned integer.  (The
\* 4-byte values of the records built below keep their top byte under 128,
\* so that the value fits the integers of the checker.)
RECURSIVE le(_)
le(bytes) ==
    IF bytes = <<>> THEN 0 ELSE Head(bytes) + 256 * le(Tail(bytes))

\* The value of 4 little-endian bytes read as a signed 32-bit integer.
le_i32(bytes) ==
    IF bytes[4] >= 128
    THEN le(SubSeq(bytes, 1, 3)) + (bytes[4] - 256) * 16777216
    ELSE le(bytes)

\* buf.parse::<u32>() and buf.parse::<i32>(), with the value.
buf_parse_u32(buf, pos) ==
    LET r == buf_take(buf, pos, 4)
    IN  [ok |-> r.ok, val |-> IF r.ok THEN le(r.val) ELSE 0, pos |-> r.pos]

buf_parse_i32(buf, pos) ==
    LET r == buf_take(buf, pos, 4)
    IN  [ok |-> r.ok, val |-> IF r.ok THEN le_i32(r.val) ELSE 0, pos |-> r.pos]

---------------------------------------------------------------------------
(* Symbol                                                                  *)

\* Symbol::raw_kind: pread_with(0, LE).unwrap_or_default()
raw_kind(data) ==
    IF Len(data) >= 2 THEN data[1] + 256 * data[2] ELSE 0

---------------------------------------------------------------------------
(* Results of SymbolIter::next / skip_to.                                  *)

OkNone == [tag |-> "None"]
OkSome(index, data) == [tag |-> "Some", index |-> index, data |-> data]
Err(e) == [tag |-> "Err", err |-> e]
NotCalled == [tag |-> "NotCalled"]

---------------------------------------------------------------------------
(* Symbol::starts_scope, Symbol::ends_scope                                *)

\* The kinds listed in the matches! of starts_scope.
StartsScopeKinds ==
    { K.S_GPROC16, K.S_GPROC32, K.S_GPROC32_ST, K.S_GPROCMIPS,
      K.S_GPROCMIPS_ST, K.S_GPROCIA64, K.S_GPROCIA64_ST, K.S_LPROC16,
      K.S_LPROC32, K.S_LPROC32_ST, K.S_LPROC32_DPC, K.S_LPROCMIPS,
      K.S_LPROCMIPS_ST, K.S_LPROCIA64, K.S_LPROCIA64_ST,
      K.S_LPROC32_DPC_ID, K.S_GPROC32_ID, K.S_GPROCMIPS_ID,
      K.S_GPROCIA64_ID, K.S_BLOCK16, K.S_BLOCK32, K.S_BLOCK32_ST,
      K.S_WITH16, K.S_WITH32, K.S_WITH32_ST, K.S_THUNK16, K.S_THUNK32,
      K.S_THUNK32_ST, K.S_SEPCODE, K.S_GMANPROC, K.S_GMANPROC_ST,
      K.S_LMANPROC, K.S_LMANPROC_ST, K.S_INLINESITE, K.S_INLINESITE2 }

\* The kinds listed in the matches! of ends_scope.
EndsScopeKinds == { K.S_END, K.S_PROC_ID_END, K.S_INLINESITE_END }

starts_scope(data) == raw_kind(data) \in StartsScopeKinds

ends_scope_mut(data) == raw_kind(data) \in EndsScopeKinds \cup {K.S_INLINESITE}
ends_scope(data) == raw_kind(data) \in EndsScopeKinds

---------------------------------------------------------------------------
(* impl TryFromCtx for SymbolData: the arms of `match kind`, in order, each *)
(* with the SymbolData variant it builds.                                  *)

DispatchTable ==
    <<
       [variant |-> "ScopeEnd",
        kinds |-> {K.S_END}],
       [variant |-> "ObjName",
        kinds |-> {K.S_OBJNAME, K.S_OBJNAME_ST}],
       [variant |-> "RegisterVariable",
        kinds |-> {K.S_REGISTER, K.S_REGISTER_ST}],
       [variant |-> "Constant",
        kinds |-> {K.S_CONSTANT, K.S_CONSTANT_ST, K.S_MANCONSTANT}],
       [variant |-> "UserDefinedType",
        kinds |-> {K.S_UDT, K.S_UDT_ST, K.S_COBOLUDT, K.S_COBOLUDT_ST}],
       [variant |-> "MultiRegisterVariable",
        kinds |-> {K.S_MANYREG, K.S_MANYREG_ST, K.S_MANYREG2,
                   K.S_MANYREG2_ST}],
       [variant |-> "Data",
        kinds |-> {K.S_LDATA32, K.S_LDATA32_ST, K.S_GDATA32,
                   K.S_GDATA32_ST, K.S_LMANDATA, K.S_LMANDATA_ST,
                   K.S_GMANDATA, K.S_GMANDATA_ST}],
       [variant |-> "Public",
        kinds |-> {K.S_PUB32, K.S_PUB32_ST}],
       [variant |-> "Procedure",
        kinds |-> {K.S_LPROC32, K.S_LPROC32_ST, K.S_GPROC32,
                   K.S_GPROC32_ST, K.S_LPROC32_ID, K.S_GPROC32_ID,
                   K.S_LPROC32_DPC, K.S_LPROC32_DPC_ID}],
       [variant |-> "ManagedProcedure",
        kinds |-> {K.S_LMANPROC, K.S_GMANPROC}],
       [variant |-> "ThreadStorage",
        kinds |-> {K.S_LTHREAD32, K.S_LTHREAD32_ST, K.S_GTHREAD32,
                   K.S_GTHREAD32_ST}],
       [variant |-> "CompileFlags",
        kinds |-> {K.S_COMPILE2, K.S_COMPILE2_ST, K.S_COMPILE3}],
       [variant |-> "UsingNamespace",
        kinds |-> {K.S_UNAMESPACE, K.S_UNAMESPACE_ST}],
       [variant |-> "ProcedureReference",
        kinds |-> {K.S_PROCREF, K.S_PROCREF_ST, K.S_LPROCREF,
                   K.S_LPROCREF_ST}],
       [variant |-> "Trampoline",
        kinds |-> {K.S_TRAMPOLINE}],
       [variant |-> "DataReference",
        kinds |-> {K.S_DATAREF, K.S_DATAREF_ST}],
       [variant |-> "AnnotationReference",
        kinds |-> {K.S_ANNOTATIONREF}],
       [variant |-> "TokenReference",
        kinds |-> {K.S_TOKENREF}],
       [variant |-> "Export",
        kinds |-> {K.S_EXPORT}],
       [variant |-> "Local",
        kinds |-> {K.S_LOCAL}],
       [variant |-> "ManagedSlot",
        kinds |-> {K.S_MANSLOT, K.S_MANSLOT_ST}],
       [variant |-> "BuildInfo",
        kinds |-> {K.S_BUILDINFO}],
       [variant |-> "InlineSite",
        kinds |-> {K.S_INLINESITE, K.S_INLINESITE2}],
       [variant |-> "InlineSiteEnd",
        kinds |-> {K.S_INLINESITE_END}],
       [variant |-> "ProcedureEnd",
        kinds |-> {K.S_PROC_ID_END}],
       [variant |-> "Label",
        kinds |-> {K.S_LABEL32, K.S_LABEL32_ST}],
       [variant |-> "Block",
        kinds |-> {K.S_BLOCK32, K.S_BLOCK32_ST}],
       [variant |-> "RegisterRelative",
        kinds |-> {K.S_REGREL32}],
       [variant |-> "Thunk",
        kinds |-> {K.S_THUNK32, K.S_THUNK32_ST}],
       [variant |-> "SeparatedCode",
        kinds |-> {K.S_SEPCODE}],
       [variant |-> "OEM",
        kinds |-> {K.S_OEM}],
       [variant |-> "EnvBlock",
        kinds |-> {K.S_ENVBLOCK}],
       [variant |-> "Section",
        kinds |-> {K.S_SECTION}],
       [variant |-> "CoffGroup",
        kinds |-> {K.S_COFFGROUP}],
       [variant |-> "DefRange",
        kinds |-> {K.S_DEFRANGE}],
       [variant |-> "DefRangeSubField",
        kinds |-> {K.S_DEFRANGE_SUBFIELD}],
       [variant |-> "DefRangeRegister",
        kinds |-> {K.S_DEFRANGE_REGISTER}],
       [variant |-> "DefRangeFramePointerRelative",
        kinds |-> {K.S_DEFRANGE_FRAMEPOINTER_REL}],
       [variant |-> "DefRangeFramePointerRelativeFullScope",
        kinds |-> {K.S_DEFRANGE_FRAMEPOINTER_REL_FULL_SCOPE}],
       [variant |-> "DefRangeSubFieldRegister",
        kinds |-> {K.S_DEFRANGE_SUBFIELD_REGISTER}],
       [variant |-> "DefRangeRegisterRelative",
        kinds |-> {K.S_DEFRANGE_REGISTER_REL}],
       [variant |-> "BasePointerRelative",
        kinds |-> {K.S_BPREL32, K.S_BPREL32_ST, K.S_BPREL32_16T}],
       [variant |-> "FrameProcedure",
        kinds |-> {K.S_FRAMEPROC}],
       [variant |-> "CallSiteInfo",
        kinds |-> {K.S_CALLSITEINFO}],
       [variant |-> "Callers",
        kinds |-> {K.S_CALLERS}],
       [variant |-> "Callees",
        kinds |-> {K.S_CALLEES}],
       [variant |-> "Inlinees",
        kinds |-> {K.S_INLINEES}],
       [variant |-> "ArmSwitchTable",
        kinds |-> {K.S_ARMSWITCHTABLE}],
       [variant |-> "HeapAllocationSite",
        kinds |-> {K.S_HEAPALLOCSITE}],
       [variant |-> "FrameCookie",
        kinds |-> {K.S_FRAMECOOKIE}]
    >>

\* The variants built without reading any payload.
BareVariants == {"ScopeEnd", "InlineSiteEnd", "ProcedureEnd"}

\* The kinds some arm lists.
DispatchKinds == UNION {DispatchTable[a].kinds : a \in DOMAIN DispatchTable}

\* The arm `match kind` takes: the first that lists the kind, or the final
\* `other` arm.
Dispatch_mut(kind) ==
    IF kind \in DispatchKinds
    THEN LET a == CHOOSE a \in DOMAIN DispatchTable :
                     /\ kind \in DispatchTable[a].kinds
                     /\ \A b \in 1..(a - 1) : kind \notin DispatchTable[b].kinds
         IN  DispatchTable[a].variant
    ELSE "ScopeEnd"
Dispatch(kind) ==
    IF kind \in DispatchKinds
    THEN LET a == CHOOSE a \in DOMAIN DispatchTable :
                     /\ kind \in DispatchTable[a].kinds
                     /\ \A b \in 1..(a - 1) : kind \notin DispatchTable[b].kinds
         IN  DispatchTable[a].variant
    ELSE "Unimplemented"

Ok(variant) == [tag |-> "Ok", variant |-> variant]

ErrKind(kind) == [tag |-> "Err", err |-> "UnimplementedSymbolKind", kind |-> kind]

---------------------------------------------------------------------------
(* Names, and runs of fields read in order with `?`: whether the reads    *)
(* succeed and where they leave the cursor.                                *)

\* fn parse_symbol_name
parse_symbol_name_mut(buf, pos, kind) == buf_parse_cstring(buf, pos)
parse_symbol_name(buf, pos, kind) ==
    IF kind < K.S_ST_MAX THEN buf_parse_u8_pascal_string(buf, pos)
    ELSE buf_parse_cstring(buf, pos)

\* Option<RawString>
NoName == [present |-> FALSE, value |-> <<>>]

SomeName(value) == [present |-> TRUE, value |-> value]

\* fn parse_optional_name
parse_optional_name(buf, pos, kind) ==
    IF kind < K.S_ST_MAX THEN [ok |-> TRUE, val |-> NoName, pos |-> pos]
    ELSE [ok  |-> buf_parse_cstring(buf, pos).ok,
          val |-> SomeName(buf_parse_cstring(buf, pos).val),
          pos |-> buf_parse_cstring(buf, pos).pos]

\* One field: a fixed-width type, or a name read by one of the two above.
ReadField(buf, pos, field, kind) ==
    CASE field = "name" ->
            LET r == parse_symbol_name(buf, pos, kind)
            IN  [ok |-> r.ok, pos |-> r.pos]
      [] field = "optional_name" ->
            LET r == parse_optional_name(buf, pos, kind)
            IN  [ok |-> r.ok, pos |-> r.pos]
      [] field = "cstring" ->
            LET r == buf_parse_cstring(buf, pos)
            IN  [ok |-> r.ok, pos |-> r.pos]
      [] field = "rest" ->
            LET r == buf_take(buf, pos, buf_len(buf, pos))
            IN  [ok |-> r.ok, pos |-> r.pos]
      [] OTHER -> buf_parse(buf, pos, field)

\* The fields one after the other, stopping at the first that fails.
RECURSIVE ReadFields(_, _, _, _)
ReadFields(buf, pos, fields, kind) ==
    IF fields = <<>> THEN [ok |-> TRUE, pos |-> pos]
    ELSE LET r == ReadField(buf, pos, Head(fields), kind)
         IN  IF r.ok THEN ReadFields(buf, r.pos, Tail(fields), kind) ELSE r

---------------------------------------------------------------------------
(* Decoders kept with the values they build.  A decoder ends in one of     *)
(* three ways: Ok((symbol, buf.pos())), an Err passed on by `?`, or a      *)
(* panic (a failed debug assertion or an overflow check of a debug build,  *)
(* an index out of bounds in any build).                                   *)

DecOk(pos, val) == [ok |-> TRUE, panic |-> FALSE, pos |-> pos, val |-> val]

DecErr == [ok |-> FALSE, panic |-> FALSE, pos |-> 0, val |-> <<>>]

DecPanic == [ok |-> FALSE, panic |-> TRUE, pos |-> 0, val |-> <<>>]

\* Option<SymbolIndex>
NoIndex == [present |-> FALSE, value |-> 0]

SomeIndex(value) == [present |-> TRUE, value |-> value]

\* A field of type SymbolIndex: there always is a value, 0 included.
SymbolIndex(value) == [present |-> TRUE, value |-> value]

\* fn parse_optional_index, on the u32 at pos
parse_optional_index(buf, pos) ==
    IF buf_parse_u32(buf, pos).val = 0 THEN NoIndex
    ELSE SomeIndex(buf_parse_u32(buf, pos).val)

\* buf.parse::<SymbolIndex>(), on the u32 at pos
parse_index(buf, pos) == SymbolIndex(buf_parse_u32(buf, pos).val)

\* The end of a decoder whose reads are r: Ok((symbol, buf.pos())) with the
\* fields val, or the error of the read that failed.
Kept(r, val) == IF r.ok THEN DecOk(r.pos, val) ELSE DecErr

\* impl TryFromCtx for ProcedureSymbol
ProcedureSymbol(this, kind) ==
    LET fixed == ReadFields(this, 0,
                            <<"SymbolIndex", "SymbolIndex", "SymbolIndex",
                              "u32", "u32", "u32", "TypeIndex",
                              "PdbInternalSectionOffset", "ProcedureFlags">>,
                            kind)
        name  == parse_symbol_name(this, fixed.pos, kind)
    IN  IF ~fixed.ok \/ ~name.ok THEN DecErr
        ELSE DecOk(name.pos, [parent |-> parse_optional_index(this, 0),
                              name |-> name.val])

\* impl TryFromCtx for ManagedProcedureSymbol
ManagedProcedureSymbol(this, kind) ==
    LET fixed == ReadFields(this, 0,
                            <<"SymbolIndex", "SymbolIndex", "SymbolIndex",
                              "u32", "u32", "u32", "COMToken",
                              "PdbInternalSectionOffset", "ProcedureFlags",
                              "u16">>, kind)
        name  == parse_optional_name(this, fixed.pos, kind)
    IN  IF ~fixed.ok \/ ~name.ok THEN DecErr
        ELSE DecOk(name.pos, [parent |-> parse_optional_index(this, 0),
                              name |-> name.val])

\* impl TryFromCtx for InlineSiteSymbol
InlineSiteSymbol(this, kind) ==
    Kept(ReadFields(this, 0,
                    <<"SymbolIndex", "SymbolIndex", "IdIndex">>
                      \o (IF kind = K.S_INLINESITE2 THEN <<"u32">> ELSE <<>>)
                      \o <<"rest">>, kind),
         [parent |-> parse_optional_index(this, 0)])

\* impl TryFromCtx for BlockSymbol
BlockSymbol(this, kind) ==
    LET fixed == ReadFields(this, 0,
                            <<"SymbolIndex", "SymbolIndex", "u32",
                              "PdbInternalSectionOffset">>, kind)
        name  == parse_symbol_name(this, fixed.pos, kind)
    IN  IF ~fixed.ok \/ ~name.ok THEN DecErr
        ELSE DecOk(name.pos, [parent |-> parse_index(this, 0),
                              name |-> name.val])

\* enum ThunkKind
ThunkKind(tag, value, target) ==
    [tag |-> tag, value |-> value, target |-> target]

\* let kind = match ord { ... }: what is read after the name, and the
\* ThunkKind built from it.
thunk_kind(this, pos, ord) ==
    CASE ord = 0 -> [ok |-> TRUE, pos |-> pos, val |-> ThunkKind("NoType", 0, <<>>)]
      [] ord = 1 ->
            LET delta  == buf_parse_u16(this, pos)
                target == buf_parse_cstring(this, delta.pos)
            IN  [ok  |-> delta.ok /\ target.ok,
                 pos |-> target.pos,
                 val |-> ThunkKind("Adjustor", delta.val, target.val)]
      [] ord = 2 ->
            LET index == buf_parse_u16(this, pos)
            IN  [ok |-> index.ok, pos |-> index.pos,
                 val |-> ThunkKind("VCall", index.val, <<>>)]
      [] ord = 3 -> [ok |-> TRUE, pos |-> pos, val |-> ThunkKind("PCode", 0, <<>>)]
      [] ord = 4 -> [ok |-> TRUE, pos |-> pos, val |-> ThunkKind("Load", 0, <<>>)]
      [] OTHER -> [ok |-> TRUE, pos |-> pos, val |-> ThunkKind("Unknown", ord, <<>>)]

\* The end of ThunkSymbol's decoder, once name and ord have been read.
ThunkWith(parent, name, k) ==
    IF ~k.ok THEN DecErr
    ELSE DecOk(k.pos, [parent |-> parent, name |-> name, kind |-> k.val])

\* The same reads with ord taken from the byte that follows the name.
ThunkSymbol_mut(this, kind) ==
    LET head == ReadFields(this, 0,
                           <<"SymbolIndex", "SymbolIndex", "SymbolIndex",
                             "PdbInternalSectionOffset", "u16">>, kind)
        name == parse_symbol_name(this, head.pos, kind)
        ord  == buf_parse(this, name.pos, "u8")
    IN  IF ~head.ok \/ ~name.ok \/ ~ord.ok THEN DecErr
        ELSE ThunkWith(parse_optional_index(this, 0), name.val,
                       thunk_kind(this, ord.pos, this[ord.pos]))
\* impl TryFromCtx for ThunkSymbol: ord is the byte read just before the
\* name, and what follows the name depends on it.
ThunkSymbol(this, kind) ==
    LET head == ReadFields(this, 0,
                           <<"SymbolIndex", "SymbolIndex", "SymbolIndex",
                             "PdbInternalSectionOffset", "u16">>, kind)
        ord  == buf_parse(this, head.pos, "u8")
        name == parse_symbol_name(this, ord.pos, kind)
    IN  IF ~head.ok \/ ~ord.ok \/ ~name.ok THEN DecErr
        ELSE ThunkWith(parse_optional_index(this, 0), name.val,
                       thunk_kind(this, name.pos, this[ord.pos]))

\* impl TryFromCtx for SeparatedCodeSymbol
SeparatedCodeSymbol(this, kind) ==
    Kept(ReadFields(this, 0,
                    <<"SymbolIndex", "SymbolIndex", "u32",
                      "SeparatedCodeFlags", "u32", "u32", "u16", "u16">>,
                    kind),
         [parent |-> parse_index(this, 0)])

\* impl TryFromCtx for LabelSymbol
LabelSymbol(this, kind) ==
    LET fixed == ReadFields(this, 0,
                            <<"PdbInternalSectionOffset", "ProcedureFlags">>,
                            kind)
        name  == parse_symbol_name(this, fixed.pos, kind)
    IN  IF ~fixed.ok \/ ~name.ok THEN DecErr
        ELSE DecOk(name.pos, [name |-> name.val])

\* Option<usize>
NoModule == [present |-> FALSE, value |-> 0]

SomeModule(value) == [present |-> TRUE, value |-> value]

\* u16::checked_sub(rhs).map(usize::from)
checked_sub_mut(value, rhs) == SomeModule((value + 65536 - rhs) % 65536)
checked_sub(value, rhs) ==
    IF value >= rhs THEN SomeModule(value - rhs) ELSE NoModule

\* let module = buf.parse::<u16>()?.checked_sub(1).map(usize::from);
\* (the u16 after sum_name and symbol_index)
parse_module(this) == checked_sub(buf_parse_u16(this, 8).val, 1)

\* impl TryFromCtx for ProcedureReferenceSymbol
ProcedureReferenceSymbol(this, kind) ==
    LET fixed == ReadFields(this, 0, <<"u32", "SymbolIndex", "u16">>, kind)
        name  == parse_optional_name(this, fixed.pos, kind)
    IN  IF ~fixed.ok \/ ~name.ok THEN DecErr
        ELSE DecOk(name.pos,
                   [global |-> kind \in {K.S_PROCREF, K.S_PROCREF_ST},
                    module |-> parse_module(this),
                    name |-> name.val])

\* impl TryFromCtx for DataReferenceSymbol
DataReferenceSymbol(this, kind) ==
    LET fixed == ReadFields(this, 0, <<"u32", "SymbolIndex", "u16">>, kind)
        name  == parse_optional_name(this, fixed.pos, kind)
    IN  IF ~fixed.ok \/ ~name.ok THEN DecErr
        ELSE DecOk(name.pos,
                   [module |-> parse_module(this), name |-> name.val])

\* impl TryFromCtx for AnnotationReferenceSymbol
AnnotationReferenceSymbol(this, kind) ==
    LET fixed == ReadFields(this, 0, <<"u32", "SymbolIndex", "u16">>, kind)
        name  == parse_symbol_name(this, fixed.pos, kind)
    IN  IF ~fixed.ok \/ ~name.ok THEN DecErr
        ELSE DecOk(name.pos,
                   [module |-> parse_module(this), name |-> name.val])

\* impl TryFromCtx for TokenReferenceSymbol
TokenReferenceSymbol(this, kind) ==
    LET fixed == ReadFields(this, 0, <<"u32", "SymbolIndex", "u16">>, kind)
        name  == parse_symbol_name(this, fixed.pos, kind)
    IN  IF ~fixed.ok \/ ~name.ok THEN DecErr
        ELSE DecOk(name.pos,
                   [module |-> parse_module(this), name |-> name.val])

\* Option<i32>
NoSlot == [present |-> FALSE, value |-> 0]

SomeSlot(value) == [present |-> TRUE, value |-> value]

\* let slot = if (this.len() as i64 - name.len() as i64 - fixed) >= 6 {
\*     if this[name.len() + marker] == 0x24 {
\*         Some(ParseBuffer::from(&this[(name.len() + marker + 1)..]).parse()?)
\*     } else { None } } else { None };
sniff_slot_mut(this, name_len, fixed, marker) ==
    IF Len(this) - name_len - fixed >= 4 /\ this[name_len + marker + 1] = 36
    THEN LET slot == buf_parse_i32(this, name_len + marker + 1)
         IN  [ok |-> slot.ok, panic |-> FALSE,
              slot |-> IF slot.ok THEN SomeSlot(slot.val) ELSE NoSlot]
    ELSE [ok |-> TRUE, panic |-> FALSE, slot |-> NoSlot]
sniff_slot_loose(this, name_len, fixed, marker) ==
    IF Len(this) - name_len - fixed >= 0
    THEN IF name_len + marker >= Len(this)
         THEN [ok |-> FALSE, panic |-> TRUE, slot |-> NoSlot]
         ELSE IF this[name_len + marker + 1] = 36
         THEN LET slot == buf_parse_i32(this, name_len + marker + 1)
              IN  IF slot.ok
                  THEN [ok |-> TRUE, panic |-> FALSE, slot |-> SomeSlot(slot.val)]
                  ELSE [ok |-> FALSE, panic |-> FALSE, slot |-> NoSlot]
         ELSE [ok |-> TRUE, panic |-> FALSE, slot |-> NoSlot]
    ELSE [ok |-> TRUE, panic |-> FALSE, slot |-> NoSlot]
sniff_slot(this, name_len, fixed, marker) ==
    IF Len(this) - name_len - fixed >= 6
    THEN IF name_len + marker >= Len(this)
         THEN [ok |-> FALSE, panic |-> TRUE, slot |-> NoSlot]
         ELSE IF this[name_len + marker + 1] = 36
         THEN LET slot == buf_parse_i32(this, name_len + marker + 1)
              IN  IF slot.ok
                  THEN [ok |-> TRUE, panic |-> FALSE, slot |-> SomeSlot(slot.val)]
                  ELSE [ok |-> FALSE, panic |-> FALSE, slot |-> NoSlot]
         ELSE [ok |-> TRUE, panic |-> FALSE, slot |-> NoSlot]
    ELSE [ok |-> TRUE, panic |-> FALSE, slot |-> NoSlot]

\* The end of the four decoders below: the cursor returned is the one after
\* the name, the slot being read through a buffer of its own.
WithSlot(fixed, name, slot) ==
    IF ~fixed.ok \/ ~name.ok THEN DecErr
    ELSE IF slot.panic THEN DecPanic
    ELSE IF ~slot.ok THEN DecErr
    ELSE DecOk(name.pos, [name |-> name.val, slot |-> slot.slot])

\* impl TryFromCtx for RegisterVariableSymbol
RegisterVariableSymbol(this, kind) ==
    LET fixed == ReadFields(this, 0, <<"TypeIndex", "Register">>, kind)
        name  == parse_symbol_name(this, fixed.pos, kind)
    IN  WithSlot(fixed, name, sniff_slot(this, Len(name.val), 8, 11))

\* impl TryFromCtx for LocalSymbol
LocalSymbol(this, kind) ==
    LET fixed == ReadFields(this, 0, <<"TypeIndex", "LocalVariableFlags">>, kind)
        name  == parse_symbol_name(this, fixed.pos, kind)
    IN  WithSlot(fixed, name, sniff_slot(this, Len(name.val), 8, 11))

\* impl TryFromCtx for RegisterRelativeSymbol
RegisterRelativeSymbol(this, kind) ==
    LET fixed == ReadFields(this, 0, <<"i32", "TypeIndex", "Register">>, kind)
        name  == parse_symbol_name(this, fixed.pos, kind)
    IN  WithSlot(fixed, name, sniff_slot(this, Len(name.val), 12, 15))

\* impl TryFromCtx for BasePointerRelativeSymbol: the type index is 16 bits
\* wide in S_BPREL32_16T; another kind than the three is an error.
BasePointerRelativeSymbol(this, kind) ==
    LET fixed == ReadFields(this, 0,
                            IF kind = K.S_BPREL32_16T THEN <<"i32", "u16">>
                            ELSE <<"i32", "TypeIndex">>, kind)
        name  == parse_symbol_name(this, fixed.pos, kind)
    IN  IF kind \notin {K.S_BPREL32, K.S_BPREL32_ST, K.S_BPREL32_16T}
        THEN DecErr
        ELSE WithSlot(fixed, name, sniff_slot(this, Len(name.val), 10, 13))

\* while !buf.is_empty() { invocations.push(buf.parse()?); }
\* (invocations is the vector pushed to so far)
RECURSIVE parse_until_empty(_, _, _)
parse_until_empty(buf, pos, invocations) ==
    IF buf_is_empty(buf, pos)
    THEN [ok |-> TRUE, vals |-> invocations, pos |-> pos]
    ELSE IF ~buf_parse_u32(buf, pos).ok
    THEN [ok |-> FALSE, vals |-> invocations, pos |-> pos]
    ELSE parse_until_empty(buf, buf_parse_u32(buf, pos).pos,
                           Append(invocations, buf_parse_u32(buf, pos).val))

\* The end of InlineesSymbol's decoder, once count and the entries have
\* been read: debug_assert_eq!(inlinees.len(), count as usize), then Ok.
InlineesWith(count, inlinees, debug) ==
    IF ~count.ok \/ ~inlinees.ok THEN DecErr
    ELSE IF debug /\ Len(inlinees.vals) # count.val THEN DecPanic
    ELSE DecOk(inlinees.pos, [inlinees |-> inlinees.vals])

\* The same reads, stopped after count entries.
InlineesSymbol_mut(this, kind, debug) ==
    InlineesWith(buf_parse_u32(this, 0),
                 parse_until_empty(
                     SubSeq(this, 1, Min(Len(this),
                                         4 + 4 * buf_parse_u32(this, 0).val)),
                     buf_parse_u32(this, 0).pos, <<>>),
                 FALSE)
\* impl TryFromCtx for InlineesSymbol
InlineesSymbol(this, kind, debug) ==
    InlineesWith(buf_parse_u32(this, 0),
                 parse_until_empty(this, buf_parse_u32(this, 0).pos, <<>>),
                 debug)

\* vec![elem; n]: elem is evaluated once and cloned n times.
vec_from_elem(elem, n) == IF n = 0 THEN <<>> ELSE [i \in 1..n |-> elem]

\* Vec::resize(new_len, value): truncates, or extends with value.
resize(v, new_len, value) ==
    IF new_len = 0 THEN <<>>
    ELSE [i \in 1..new_len |-> IF i <= Len(v) THEN v[i] ELSE value]

\* impl TryFromCtx for FunctionListSymbol
FunctionListSymbol(this, kind, debug) ==
    LET count == buf_parse_u32(this, 0)
        elem  == buf_parse_u32(this, count.pos)
        rest  == parse_until_empty(this, elem.pos, <<>>)
    IN  IF ~count.ok \/ ~elem.ok \/ ~rest.ok THEN DecErr
        ELSE LET functions == vec_from_elem(elem.val, count.val)
             IN  IF debug /\ ~(Len(rest.vals) <= Len(functions)) THEN DecPanic
                 ELSE DecOk(rest.pos,
                            [functions |-> functions,
                             invocations |-> resize(rest.vals, Len(functions), 0)])

\* impl TryFromCtx for AddressGap
AddressGap(bytes) ==
    [gap_start_offset |-> le(SubSeq(bytes, 1, 2)),
     cb_range |-> le(SubSeq(bytes, 3, 4))]

\* for _ in 0..gap_count { symbol.gaps.push(buf.parse()?); }
\* (gaps is the vector pushed to so far)
RECURSIVE parse_gaps(_, _, _, _)
parse_gaps(buf, pos, gap_count, gaps) ==
    IF gap_count = 0 THEN [ok |-> TRUE, vals |-> gaps, pos |-> pos]
    ELSE IF ~buf_take(buf, pos, Width("AddressGap")).ok
    THEN [ok |-> FALSE, vals |-> gaps, pos |-> pos]
    ELSE parse_gaps(buf, pos + Width("AddressGap"), gap_count - 1,
                    Append(gaps, AddressGap(buf_take(buf, pos,
                                                     Width("AddressGap")).val)))

\* let gap_count = (buf.len() + 4 - sizeof) / 4;  for buf.len() + 4 >= sizeof
gap_count_mut(len, sizeof) == (len - sizeof) \div 4
gap_count(len, sizeof) == (len + 4 - sizeof) \div 4

\* The six decoders with gaps: the count is computed from the length of the
\* payload before anything is read.  With buf.len() + 4 < sizeof the usize
\* subtraction overflows: a debug build panics, a release build wraps to a
\* count near 2^62.  The loop ends at the first failed read, so every count
\* above the number of bytes of the payload behaves alike, and Len(this) + 1
\* stands for the wrapped one.
WithGaps(this, sizeof, fields, debug) ==
    LET len == buf_len(this, 0)
    IN  IF len + 4 < sizeof /\ debug THEN DecPanic
        ELSE LET n     == IF len + 4 < sizeof THEN Len(this) + 1
                          ELSE gap_count(len, sizeof)
                 fixed == ReadFields(this, 0, fields, 0)
                 gaps  == parse_gaps(this, fixed.pos, n, <<>>)
             IN  IF ~fixed.ok \/ ~gaps.ok THEN DecErr
                 ELSE DecOk(gaps.pos, [gaps |-> gaps.vals])

\* impl TryFromCtx for DefRangeSymbol
DefRangeSymbol(this, debug) ==
    WithGaps(this, 16, <<"u32", "AddressRange">>, debug)

\* impl TryFromCtx for DefRangeSubFieldSymbol
DefRangeSubFieldSymbol(this, debug) ==
    WithGaps(this, 20, <<"u32", "u32", "AddressRange">>, debug)

\* impl TryFromCtx for DefRangeRegisterSymbol
DefRangeRegisterSymbol(this, debug) ==
    WithGaps(this, 16, <<"Register", "RangeFlags", "AddressRange">>, debug)

\* impl TryFromCtx for DefRangeFramePointerRelativeSymbol
DefRangeFramePointerRelativeSymbol(this, debug) ==
    WithGaps(this, 16, <<"i32", "AddressRange">>, debug)

\* impl TryFromCtx for DefRangeSubFieldRegisterSymbol
DefRangeSubFieldRegisterSymbol(this, debug) ==
    WithGaps(this, 20, <<"Register", "RangeFlags", "u32", "AddressRange">>,
             debug)

\* impl TryFromCtx for DefRangeRegisterRelativeSymbol
DefRangeRegisterRelativeSymbol(this, debug) ==
    WithGaps(this, 20, <<"Register", "u16", "i32", "AddressRange">>, debug)

\* The variants whose decoders are written out above.
Decoded ==
    {"Procedure", "ManagedProcedure", "InlineSite", "Block", "Thunk",
     "SeparatedCode", "Label", "ProcedureReference", "DataReference",
     "AnnotationReference", "TokenReference", "Inlinees",
     "RegisterVariable", "Local",
     "RegisterRelative", "BasePointerRelative", "Callers", "Callees",
     "DefRange", "DefRangeSubField", "DefRangeRegister",
     "DefRangeFramePointerRelative", "DefRangeSubFieldRegister",
     "DefRangeRegisterRelative"}

\* buf.parse_with(kind)? for one of them, on the bytes after the kind.
Decode(variant, this, kind, debug) ==
    CASE variant = "Procedure" -> ProcedureSymbol(this, kind)
      [] variant = "ManagedProcedure" -> ManagedProcedureSymbol(this, kind)
      [] variant = "InlineSite" -> InlineSiteSymbol(this, kind)
      [] variant = "Block" -> BlockSymbol(this, kind)
      [] variant = "Thunk" -> ThunkSymbol(this, kind)
      [] variant = "SeparatedCode" -> SeparatedCodeSymbol(this, kind)
      [] variant = "Label" -> LabelSymbol(this, kind)
      [] variant = "RegisterVariable" -> RegisterVariableSymbol(this, kind)
      [] variant = "Local" -> LocalSymbol(this, kind)
      [] variant = "RegisterRelative" -> RegisterRelativeSymbol(this, kind)
      [] variant = "BasePointerRelative" -> BasePointerRelativeSymbol(this, kind)
      [] variant \in {"Callers", "Callees"} ->
            FunctionListSymbol(this, kind, debug)
      [] variant = "DefRange" -> DefRangeSymbol(this, debug)
      [] variant = "DefRangeSubField" -> DefRangeSubFieldSymbol(this, debug)
      [] variant = "DefRangeRegister" -> DefRangeRegisterSymbol(this, debug)
      [] variant = "DefRangeFramePointerRelative" ->
            DefRangeFramePointerRelativeSymbol(this, debug)
      [] variant = "ProcedureReference" -> ProcedureReferenceSymbol(this, kind)
      [] variant = "DataReference" -> DataReferenceSymbol(this, kind)
      [] variant = "AnnotationReference" ->
            AnnotationReferenceSymbol(this, kind)
      [] variant = "TokenReference" -> TokenReferenceSymbol(this, kind)
      [] variant = "Inlinees" -> InlineesSymbol(this, kind, debug)
      [] variant = "DefRangeSubFieldRegister" ->
            DefRangeSubFieldRegisterSymbol(this, debug)
      [] variant = "DefRangeRegisterRelative" ->
            DefRangeRegisterRelativeSymbol(this, debug)

\* Ok((symbol, buf.pos())) of SymbolData::try_from_ctx for a variant decoded
\* above: the variant, the consumed-byte count and the values kept.
OkWith(variant, used, val) ==
    [tag |-> "Ok", variant |-> variant, used |-> used, val |-> val]

Panic == [tag |-> "Panic"]

\* SymbolData::name: the arms that return Some(&data.name), those that
\* return data.name.as_deref(), and the last arm, which returns None.
SomeNameArms ==
    {"ObjName", "Constant", "UserDefinedType", "Data", "Public", "Procedure",
     "ThreadStorage", "UsingNamespace", "AnnotationReference",
     "TokenReference", "Export", "Local", "ManagedSlot", "Label", "Block",
     "RegisterRelative", "Thunk", "Section", "CoffGroup",
     "BasePointerRelative"}

AsDerefArms == {"ManagedProcedure", "ProcedureReference", "DataReference"}

SymbolData_name(symbol) ==
    CASE symbol.variant \in SomeNameArms -> SomeName(symbol.val.name)
      [] symbol.variant \in AsDerefArms -> symbol.val.name
      [] OTHER -> NoName

\* SymbolData::Variant(buf.parse_with(kind)?) and Ok((symbol, buf.pos())):
\* r is what the variant's decoder did with the bytes after cursor `at`.
parse_with(variant, at, r) ==
    IF r.panic THEN Panic
    ELSE IF r.ok THEN OkWith(variant, at + r.pos, r.val)
    ELSE Err("Payload")

\* SymbolData::try_from_ctx on the bytes of one record.  `fits` stands for
\* the outcome of buf.parse_with(kind)? for a variant whose decoder is not
\* written out above: TRUE when it decodes the payload, FALSE when it
\* returns an error, which `?` passes on.  The bare variants read nothing.
\* `debug` tells a build with debug assertions and overflow checks from one
\* without.
parse(data, fits, debug) ==
    LET kind == buf_parse_u16(data, 0)
    IN  IF ~kind.ok THEN Err("UnexpectedEof")
        ELSE LET variant == Dispatch(kind.val)
                 payload == SubSeq(data, kind.pos + 1, Len(data))
             IN  IF variant = "Unimplemented" THEN ErrKind(kind.val)
                 ELSE IF variant \in BareVariants THEN Ok(variant)
                 ELSE IF variant \in Decoded
                 THEN parse_with(variant, kind.pos,
                                 Decode(variant, payload, kind.val, debug))
                 ELSE IF fits THEN Ok(variant)
                 ELSE Err("Payload")

---------------------------------------------------------------------------
(* SymbolIter::next, one piece per statement of the loop body.             *)

\* let index = SymbolIndex(self.buf.pos() as u32);  (the cast keeps every
\* offset below 2^32, and the streams here are a few dozen bytes long)
symbol_index_mut(pos) == pos + 2
symbol_index(pos) == pos

\* if symbol_length < 2 { return Err(Error::SymbolTooShort) }
too_short_mut(symbol_length) == symbol_length < 1
too_short_never(symbol_length) == FALSE
too_short(symbol_length) == symbol_length < 2

\* let data = self.buf.take(symbol_length)?;
grab_mut(buf, pos, symbol_length) ==
    buf_take(buf, pos, Min(symbol_length, buf_len(buf, pos)))
grab_short(buf, pos, symbol_length) == buf_take(buf, pos, symbol_length - 2)
grab_peek(buf, pos, symbol_length) ==
    [buf_take(buf, pos, symbol_length) EXCEPT !.pos = pos]
grab(buf, pos, symbol_length) == buf_take(buf, pos, symbol_length)

\* match symbol.raw_kind() { S_ALIGN | S_SKIP => continue, ... }
is_padding_mut(kind) == kind = K.S_SKIP
is_padding(kind) == kind \in {K.S_ALIGN, K.S_SKIP}

\* One pass through the body of `while !self.buf.is_empty()`: either the
\* loop goes round again (cont) or next() returns res; pos is the cursor
\* the pass leaves behind.
LoopBody(buf, pos) ==
    LET index == symbol_index(pos)
        len   == buf_parse_u16(buf, pos)
    IN  IF ~len.ok
        THEN [cont |-> FALSE, res |-> Err("UnexpectedEof"), pos |-> len.pos]
        ELSE IF too_short(len.val)
        THEN [cont |-> FALSE, res |-> Err("SymbolTooShort"), pos |-> len.pos]
        ELSE LET data == grab(buf, len.pos, len.val)
             IN  IF ~data.ok
                 THEN [cont |-> FALSE, res |-> Err("UnexpectedEof"), pos |-> data.pos]
                 ELSE IF is_padding(raw_kind(data.val))
                 THEN [cont |-> TRUE, res |-> NotCalled, pos |-> data.pos]
                 ELSE [cont |-> FALSE, res |-> OkSome(index, data.val),
                       pos |-> data.pos]

\* The whole call: res, the cursor afterwards, and (ghost) the cursor at
\* which the last pass of the loop started.
RECURSIVE next_rewind(_, _)
next_rewind(buf, pos) ==
    IF buf_is_empty(buf, pos)
    THEN [res |-> OkNone, pos |-> 0, at |-> pos]
    ELSE LET b == LoopBody(buf, pos)
         IN  IF b.cont THEN next_rewind(buf, b.pos)
             ELSE [res |-> b.res, pos |-> b.pos, at |-> pos]
RECURSIVE next(_, _)
next(buf, pos) ==
    IF buf_is_empty(buf, pos)
    THEN [res |-> OkNone, pos |-> pos, at |-> pos]
    ELSE LET b == LoopBody(buf, pos)
         IN  IF b.cont THEN next(buf, b.pos)
             ELSE [res |-> b.res, pos |-> b.pos, at |-> pos]

\* SymbolIter::seek: self.buf.seek(index.0 as usize)
seek_mut(buf, index) == buf_seek(buf, index + 2)
seek(buf, index) == buf_seek(buf, index)

---------------------------------------------------------------------------
(* The streams the model walks: records written as a 2-byte little-endian  *)
(* length followed by that many bytes (kind + payload), then a tail that   *)
(* is empty or is not a whole record.                                      *)

\* Record bodies (kind + payload): S_END, S_SKIP, S_ALIGN with two bytes of
\* payload, and S_OEM with one byte of payload (an odd length).
Bodies == { <<6, 0>>, <<7, 0>>, <<2, 4, 0, 0>>, <<4, 4, 1>> }

\* Tails: nothing; a length of 0; a length of 1 and a byte after it; one lone
\* byte; a length of 4 with 2 bytes left.
Tails == { <<>>, <<0, 0>>, <<1, 0, 6>>, <<2>>, <<4, 0, 6, 0>> }

\* The same for a stream two iterators share.
SharedBodies == { <<6, 0>>, <<7, 0>> }

SharedTails == { <<>>, <<1, 0>> }

EncodeRecord(body) == <<Len(body) % 256, Len(body) \div 256>> \o body

RECURSIVE Encode(_)
Encode(recs) ==
    IF recs = <<>> THEN <<>>
    ELSE EncodeRecord(Head(recs)) \o Encode(Tail(recs))

Layouts(bodies, n) == UNION {[1..k -> bodies] : k \in 0..n}

\* Offset of the length prefix of record k+1 (k records precede it).
RECURSIVE Boundary(_, _)
Boundary(recs, k) ==
    IF k = 0 THEN 0 ELSE Boundary(recs, k - 1) + 2 + Len(recs[k])

---------------------------------------------------------------------------
(* State                                                                   *)

Handles == {1, 2}

NoIter ==
    [live |-> FALSE, pos |-> 0, sought |-> 0, start |-> 0, log |-> <<>>,
     done |-> FALSE, last |-> NotCalled, at |-> 0]

\* SymbolIter::new(self.stream.parse_buffer()) and, as ghosts: the index
\* last given to seek, skip_to or iter_at (sought, 0 for iter) and where
\* that placed the cursor (start); the results next() returned since then
\* (log), up to the first call that returns no symbol and leaves the cursor
\* where it was (done: from there on every call is that call again); the
\* last result (last) and where its last loop pass began (at).
NewIter(index, pos) ==
    [live |-> TRUE, pos |-> pos, sought |-> index, start |-> pos,
     log |-> <<>>, done |-> FALSE, last |-> NotCalled, at |-> pos]

\* The ghosts of iterator `it` after a call of next() from cursor pos that
\* returned r (see next below).
Called(it, pos, r) ==
    [it EXCEPT !.pos = r.pos, !.last = r.res, !.at = r.at,
               !.log = IF it.done THEN @ ELSE Append(@, r.res),
               !.done = @ \/ (r.res.tag # "Some" /\ r.pos = pos)]

NoSymbol == [index |-> 0, data |-> <<>>]

\* What starts_scope() and ends_scope() answered for sym, once asked.
NoScope == [starts |-> "unasked", ends |-> "unasked"]

Answer(b) == IF b THEN "true" ELSE "false"

\* name() not called yet on the value in parsed, and what it returned.
NotAsked == [asked |-> FALSE, name |-> NoName]

Asked(answer) == [asked |-> TRUE, name |-> answer]

InitStream(bodies, tails, n) ==
    /\ layout \in Layouts(bodies, n)
    /\ \E tail \in tails : stream = Encode(layout) \o tail

InitRest ==
    /\ iters = [h \in Handles |-> NoIter]
    /\ pc = "idle"
    /\ sym = NoSymbol
    /\ parsed = NotCalled
    /\ scope = NoScope
    /\ named = NotAsked

Indexes == 0 .. Len(stream) + 1

---------------------------------------------------------------------------
(* SymbolTable and SymbolIter operations on handle h.                      *)

\* SymbolTable::iter
Iter(h) ==
    /\ pc = "idle"
    /\ ~iters[h].live
    /\ iters' = [iters EXCEPT ![h] = NewIter(0, 0)]
    /\ UNCHANGED <<stream, layout, pc, sym, parsed, scope, named>>

\* SymbolTable::iter_at
IterAt(h) ==
    /\ pc = "idle"
    /\ ~iters[h].live
    /\ \E index \in Indexes :
         iters' = [iters EXCEPT ![h] = NewIter(index, seek(stream, index))]
    /\ UNCHANGED <<stream, layout, pc, sym, parsed, scope, named>>

\* SymbolIter::seek
Seek(h) ==
    /\ pc = "idle"
    /\ iters[h].live
    /\ \E index \in Indexes :
         iters' = [iters EXCEPT ![h] = NewIter(index, seek(stream, index))]
    /\ UNCHANGED <<stream, layout, pc, sym, parsed, scope, named>>

\* next() as it would be if the iterators of a table advanced one cursor
\* between them.
Next_shared(h) ==
    /\ pc = "idle"
    /\ iters[h].live
    /\ LET r == next(stream, iters[h].pos)
       IN  iters' = [g \in Handles |->
                       IF g = h THEN Called(iters[h], iters[h].pos, r)
                       ELSE IF iters[g].live THEN [iters[g] EXCEPT !.pos = r.pos]
                       ELSE iters[g]]
    /\ UNCHANGED <<stream, layout, pc, sym, parsed, scope, named>>

\* FallibleIterator::next for SymbolIter
Next(h) ==
    /\ pc = "idle"
    /\ iters[h].live
    /\ LET r == next(stream, iters[h].pos)
       IN  iters' = [iters EXCEPT ![h] = Called(@, iters[h].pos, r)]
    /\ UNCHANGED <<stream, layout, pc, sym, parsed, scope, named>>

\* SymbolIter::skip_to
SkipTo(h) ==
    /\ pc = "idle"
    /\ iters[h].live
    /\ \E index \in Indexes :
         LET p == seek(stream, index)
             r == next(stream, p)
         IN  iters' = [iters EXCEPT ![h] = Called(NewIter(index, p), p, r)]
    /\ UNCHANGED <<stream, layout, pc, sym, parsed, scope, named>>

---------------------------------------------------------------------------
(* One iterator over a stream of up to MaxRecords records.                 *)

InitIter == InitStream(Bodies, Tails, MaxRecords) /\ InitRest

NextIter == Iter(1) \/ IterAt(1) \/ Seek(1) \/ Next(1) \/ SkipTo(1)

SpecIter == InitIter /\ [][NextIter]_vars

---------------------------------------------------------------------------
(* Two iterators over one stream of up to MaxShared records.               *)

InitShared == InitStream(SharedBodies, SharedTails, MaxShared) /\ InitRest

Op(h) == Iter(h) \/ IterAt(h) \/ Seek(h) \/ Next(h) \/ SkipTo(h)

NextShared == \E h \in Handles : Op(h)

SpecShared == InitShared /\ [][NextShared]_vars

---------------------------------------------------------------------------
(* One iterator with next() taken one loop pass at a time.  The loop is    *)
(* straight-line sequential code: once called it keeps running, which is   *)
(* the weak fairness of LoopStep.                                          *)

\* next() is entered.
CallNext ==
    /\ pc = "idle"
    /\ iters[1].live
    /\ pc' = "loop"
    /\ UNCHANGED <<stream, layout, iters, sym, parsed, scope, named>>

\* The loop test and, if it passes, one pass through the loop body.
LoopStep ==
    /\ pc = "loop"
    /\ LET pos == iters[1].pos
       IN  IF buf_is_empty(stream, pos)
           THEN /\ iters' = [iters EXCEPT ![1] =
                               [@ EXCEPT !.last = OkNone, !.at = pos]]
                /\ pc' = "idle"
           ELSE LET b == LoopBody(stream, pos)
                IN  IF b.cont
                    THEN /\ iters' = [iters EXCEPT ![1] = [@ EXCEPT !.pos = b.pos]]
                         /\ pc' = "loop"
                    ELSE /\ iters' = [iters EXCEPT ![1] =
                                        [@ EXCEPT !.pos = b.pos, !.last = b.res,
                                                  !.at = pos]]
                         /\ pc' = "idle"
    /\ UNCHANGED <<stream, layout, sym, parsed, scope, named>>

NextLoop == Iter(1) \/ IterAt(1) \/ Seek(1) \/ CallNext \/ LoopStep

SpecLoop == InitIter /\ [][NextLoop]_vars /\ WF_vars(LoopStep)

---------------------------------------------------------------------------
(* One Symbol handle, parsed and classified.  The handle is over a record  *)
(* of any probed kind: every kind the source names, the values next to     *)
(* them, and the ends of the 16-bit range.                                 *)

NamedKinds == DispatchKinds \cup StartsScopeKinds \cup EndsScopeKinds
                \cup {K.S_ALIGN, K.S_SKIP, K.S_ST_MAX}

ProbeKinds ==
    (NamedKinds \cup {k - 1 : k \in NamedKinds} \cup {k + 1 : k \in NamedKinds}
       \cup {0, 65535}) \cap (0..65535)

\* Payloads: none; six bytes; and MaxPayload zero bytes, which every
\* fixed-width field and every name (an empty one, in either encoding) of
\* the decoders above can be read from.
ProbePayloads == { <<>>, <<1, 0, 0, 0, 36, 0>>, [i \in 1..MaxPayload |-> 0] }

KindBytes(kind) == <<kind % 256, kind \div 256>>

InitParse ==
    /\ stream = <<>>
    /\ layout = <<>>
    /\ iters = [h \in Handles |-> NoIter]
    /\ pc = "idle"
    /\ \/ \E kind \in ProbeKinds, payload \in ProbePayloads :
            sym = [index |-> 0, data |-> KindBytes(kind) \o payload]
       \/ \E short \in {<<>>, <<6>>} : sym = [index |-> 0, data |-> short]
    /\ parsed = NotCalled
    /\ scope = NoScope
    /\ named = NotAsked

\* Symbol::parse
ParseSym ==
    /\ \E fits \in BOOLEAN, debug \in BOOLEAN :
         parsed' = parse(sym.data, fits, debug)
    /\ named' = NotAsked
    /\ UNCHANGED <<stream, layout, iters, pc, sym, scope>>

\* Symbol::starts_scope
StartsScope ==
    /\ scope' = [scope EXCEPT !.starts = Answer(starts_scope(sym.data))]
    /\ UNCHANGED <<stream, layout, iters, pc, sym, parsed, named>>

\* Symbol::ends_scope
EndsScope ==
    /\ scope' = [scope EXCEPT !.ends = Answer(ends_scope(sym.data))]
    /\ UNCHANGED <<stream, layout, iters, pc, sym, parsed, named>>

NextParse == ParseSym \/ StartsScope \/ EndsScope

SpecParse == InitParse /\ [][NextParse]_vars

---------------------------------------------------------------------------
(* One Symbol handle over a record written field by field.  The ghost      *)
(* layout keeps the fields the record was written from.                    *)

RECURSIVE Flatten(_)
Flatten(seqs) == IF seqs = <<>> THEN <<>> ELSE Head(seqs) \o Flatten(Tail(seqs))

SeqsUpTo(set, n) == UNION {[1..k -> set] : k \in 0..n}

Zeros(n) == [i \in 1..n |-> 0]

\* n bytes of fixed fields: 1, 2, ..., n (none of them 0 or 0x24).
FixedBytes(n) == [i \in 1..n |-> i]

\* 4-byte entries: function indexes, invocation counts, gaps.
FuncWords == { <<191, 72, 0, 0>>, <<192, 72, 0, 0>> }

InvWords == { <<7, 0, 0, 0>>, <<0, 1, 0, 0>> }

GapWords == { <<1, 0, 2, 0>>, <<3, 0, 4, 0>> }

\* Names, in ASCII: "", "a", "th".
Names == { <<>>, <<97>>, <<116, 104>> }

\* A name as the writer of a record of this kind encodes it.
WriteName(name, kind) ==
    IF kind < K.S_ST_MAX THEN <<Len(name)>> \o name ELSE name \o <<0>>

\* S_CALLEES / S_CALLERS: count, the functions, then invocation counts for
\* the first k of them.
ListKinds == {K.S_CALLEES, K.S_CALLERS}

ListLayouts ==
    { [family |-> "list", kind |-> kind, functions |-> fs, invocations |-> vs] :
        kind \in ListKinds,
        fs \in SeqsUpTo(FuncWords, MaxFuncs),
        vs \in SeqsUpTo(InvWords, MaxFuncs) }

WriteList(l) ==
    <<Len(l.functions), 0, 0, 0>> \o Flatten(l.functions) \o Flatten(l.invocations)

\* The DefRange family: the size cvinfo.h gives the structure of each kind
\* (record length and kind included), hence size - 4 bytes of fixed fields
\* in the payload; then gaps; then 0 to 3 more bytes.  Cut: a payload that
\* stops inside the fixed fields.
GapKinds ==
    {K.S_DEFRANGE, K.S_DEFRANGE_SUBFIELD, K.S_DEFRANGE_REGISTER,
     K.S_DEFRANGE_FRAMEPOINTER_REL, K.S_DEFRANGE_SUBFIELD_REGISTER,
     K.S_DEFRANGE_REGISTER_REL}

FixedSize(kind) ==
    IF kind \in {K.S_DEFRANGE, K.S_DEFRANGE_REGISTER,
                 K.S_DEFRANGE_FRAMEPOINTER_REL}
    THEN 12 ELSE 16

GapLayouts ==
    { [family |-> "gaps", kind |-> kind, fixed |-> FixedSize(kind) - cut,
       gaps |-> IF cut = 0 THEN gs ELSE <<>>,
       leftover |-> IF cut = 0 THEN extra ELSE 0] :
        kind \in GapKinds, gs \in SeqsUpTo(GapWords, MaxGaps),
        extra \in 0..3, cut \in {0, 1, 9} }

WriteGaps(l) ==
    FixedBytes(l.fixed) \o Flatten(l.gaps) \o [i \in 1..l.leftover |-> 9]

\* Records with a name and, after it, what the slot is looked for in: pad
\* zero bytes, a byte that is 0x24 or not, and up to 5 bytes after it.
SlotKinds ==
    {K.S_REGISTER, K.S_REGISTER_ST, K.S_LOCAL, K.S_REGREL32, K.S_BPREL32,
     K.S_BPREL32_ST, K.S_BPREL32_16T}

SlotFixed(kind) ==
    CASE kind \in {K.S_REGISTER, K.S_REGISTER_ST, K.S_LOCAL} -> 6
      [] kind = K.S_REGREL32 -> 10
      [] kind \in {K.S_BPREL32, K.S_BPREL32_ST} -> 8
      [] kind = K.S_BPREL32_16T -> 6

\* -2, and one byte more.
SlotBytes == <<254, 255, 255, 255, 0>>

SlotTails ==
    {<<>>} \cup
    { Zeros(pad) \o <<mark>> \o SubSeq(SlotBytes, 1, n) :
        pad \in 3..6, mark \in {36, 37}, n \in 0..5 }

SlotLayouts ==
    { [family |-> "slot", kind |-> kind, name |-> name, tail |-> tail] :
        kind \in SlotKinds, name \in Names, tail \in SlotTails }

WriteSlot(l) ==
    FixedBytes(SlotFixed(l.kind)) \o WriteName(l.name, l.kind) \o l.tail

\* S_LABEL32 / S_LABEL32_ST: offset, flags, name, and the zero bytes that
\* align the next record.
LabelKinds == {K.S_LABEL32, K.S_LABEL32_ST}

LabelLayouts ==
    { [family |-> "label", kind |-> kind, name |-> name, padding |-> pad] :
        kind \in LabelKinds, name \in Names, pad \in 0..3 }

WriteLabel(l) == FixedBytes(7) \o WriteName(l.name, l.kind) \o Zeros(l.padding)

\* S_PROCREF / S_LPROCREF / S_DATAREF and their _ST forms: checksum of the
\* name, symbol index, module, name, and the zero bytes that align the next
\* record.
RefKinds ==
    {K.S_PROCREF, K.S_PROCREF_ST, K.S_LPROCREF, K.S_LPROCREF_ST,
     K.S_DATAREF, K.S_DATAREF_ST}

\* The 16-bit module values written: 0, 1, 182 and 0xFFFF.
ModuleWords == { <<0, 0>>, <<1, 0>>, <<182, 0>>, <<255, 255>> }

RefLayouts ==
    { [family |-> "ref", kind |-> kind, module |-> module, name |-> name,
       padding |-> pad] :
        kind \in RefKinds, module \in ModuleWords, name \in Names,
        pad \in 0..3 }

WriteRef(l) ==
    FixedBytes(8) \o l.module \o WriteName(l.name, l.kind) \o Zeros(l.padding)

\* S_ANNOTATIONREF / S_TOKENREF: the same fields, the name mandatory.
NamedRefKinds == {K.S_ANNOTATIONREF, K.S_TOKENREF}

NamedRefLayouts ==
    { [family |-> "namedref", kind |-> kind, module |-> module,
       name |-> name, padding |-> pad] :
        kind \in NamedRefKinds, module \in ModuleWords, name \in Names,
        pad \in 0..3 }

\* S_INLINEES: a count, then the function ids, as many as the count says or
\* not, and stray bytes after them or none.
InlineesLayouts ==
    { [family |-> "inlinees", kind |-> K.S_INLINEES, count |-> count,
       inlinees |-> ids, leftover |-> extra] :
        count \in 0..MaxFuncs, ids \in SeqsUpTo(FuncWords, MaxFuncs),
        extra \in {0, 2} }

WriteInlinees(l) ==
    <<l.count, 0, 0, 0>> \o Flatten(l.inlinees)
      \o [i \in 1..l.leftover |-> 9]

\* The raw parent values written: 0 and 0x190.
ParentWords == { <<0, 0, 0, 0>>, <<144, 1, 0, 0>> }

\* The records that open a scope, but for the thunks: parent, the other
\* fixed fields, the name where there is one, and zero bytes (alignment, or
\* the annotations of an inline site).
ScopeKinds ==
    {K.S_GPROC32, K.S_LPROC32_ST, K.S_GMANPROC, K.S_INLINESITE,
     K.S_INLINESITE2, K.S_BLOCK32, K.S_BLOCK32_ST, K.S_SEPCODE}

\* The bytes of the fixed fields after parent.
ScopeFixed(kind) ==
    CASE kind \in {K.S_GPROC32, K.S_LPROC32_ST} -> 31
      [] kind = K.S_GMANPROC -> 33
      [] kind = K.S_INLINESITE -> 8
      [] kind = K.S_INLINESITE2 -> 12
      [] kind \in {K.S_BLOCK32, K.S_BLOCK32_ST} -> 14
      [] kind = K.S_SEPCODE -> 24

ScopeNamed(kind) ==
    kind \notin {K.S_INLINESITE, K.S_INLINESITE2, K.S_SEPCODE}

ScopeLayouts ==
    { [family |-> "scope", kind |-> kind, parent |-> parent, name |-> name,
       padding |-> pad] :
        kind \in ScopeKinds, parent \in ParentWords, name \in Names,
        pad \in 0..1 }

WriteScope(l) ==
    l.parent \o FixedBytes(ScopeFixed(l.kind))
      \o (IF ScopeNamed(l.kind) THEN WriteName(l.name, l.kind) ELSE <<>>)
      \o Zeros(l.padding)

\* S_THUNK32 / S_THUNK32_ST: parent, end, next, offset and len, then the
\* ordinal, the name and what the ordinal calls for, the ordinal written
\* either before the name or after it.
ThunkKinds == {K.S_THUNK32, K.S_THUNK32_ST}

\* NoType, Adjustor, VCall, PCode, and an ordinal with no meaning.
ThunkOrds == {0, 1, 2, 3, 7}

\* The adjustor's delta 8 and target "b"; the table index 5.
ThunkExtra(ord) ==
    CASE ord = 1 -> <<8, 0, 98, 0>>
      [] ord = 2 -> <<5, 0>>
      [] OTHER -> <<>>

ThunkLayouts ==
    { [family |-> "thunk", kind |-> kind, parent |-> parent, ord |-> ord,
       name |-> name, ord_first |-> first, padding |-> pad] :
        kind \in ThunkKinds, parent \in ParentWords, ord \in ThunkOrds,
        name \in Names, first \in BOOLEAN, pad \in 0..1 }

WriteThunk(l) ==
    l.parent \o FixedBytes(16)
      \o (IF l.ord_first THEN <<l.ord>> \o WriteName(l.name, l.kind)
          ELSE WriteName(l.name, l.kind) \o <<l.ord>>)
      \o ThunkExtra(l.ord) \o Zeros(l.padding)

Written(l) ==
    KindBytes(l.kind) \o
    CASE l.family = "list" -> WriteList(l)
      [] l.family = "gaps" -> WriteGaps(l)
      [] l.family = "slot" -> WriteSlot(l)
      [] l.family = "label" -> WriteLabel(l)
      [] l.family \in {"ref", "namedref"} -> WriteRef(l)
      [] l.family = "inlinees" -> WriteInlinees(l)
      [] l.family = "scope" -> WriteScope(l)
      [] l.family = "thunk" -> WriteThunk(l)

InitDecode ==
    /\ stream = <<>>
    /\ \/ layout \in ListLayouts
       \/ layout \in GapLayouts
       \/ layout \in SlotLayouts
       \/ layout \in LabelLayouts
       \/ layout \in RefLayouts
       \/ layout \in NamedRefLayouts
       \/ layout \in InlineesLayouts
       \/ layout \in ScopeLayouts
       \/ layout \in ThunkLayouts
    /\ iters = [h \in Handles |-> NoIter]
    /\ pc = "idle"
    /\ sym = [index |-> 0, data |-> Written(layout)]
    /\ parsed = NotCalled
    /\ scope = NoScope
    /\ named = NotAsked

\* SymbolData::name on the value parse() returned.
Name ==
    /\ parsed.tag = "Ok"
    /\ parsed.variant \in Decoded
    /\ named' = Asked(SymbolData_name(parsed))
    /\ UNCHANGED <<stream, layout, iters, pc, sym, parsed, scope>>

NextDecode == ParseSym \/ StartsScope \/ EndsScope \/ Name

SpecDecode == InitDecode /\ [][NextDecode]_vars

---------------------------------------------------------------------------
(* Reference readings of a stream, used to state the properties.           *)

IsPrefix(s, t) == Len(s) <= Len(t) /\ SubSeq(t, 1, Len(s)) = s

U16At(buf, pos) == buf[pos + 1] + 256 * buf[pos + 2]

Remaining(buf, pos) == Len(buf) - pos

Returned(it) == it.last.tag # "NotCalled"

Stopped(it) == it.last.tag \in {"None", "Err"}

\* The records of the layout after the first k, padding left out, each with
\* the offset of its length prefix.
RECURSIVE RecordsFrom(_, _)
RecordsFrom(recs, k) ==
    IF k >= Len(recs) THEN <<>>
    ELSE LET body == recs[k + 1]
             rest == RecordsFrom(recs, k + 1)
         IN  IF body[1] + 256 * body[2] \in {K.S_ALIGN, K.S_SKIP} THEN rest
             ELSE <<[prefix |-> Boundary(recs, k), body |-> body]>> \o rest

Bodies_of(rs) == [n \in 1..Len(rs) |-> rs[n].body]

IsSome(res) == res.tag = "Some"

\* The symbols among the results an iterator has returned, and their bytes.
Out(it) == SelectSeq(it.log, IsSome)

Data_of(out) == [n \in 1..Len(out) |-> out[n].data]

\* The results of the calls of next() one iterator alone makes from cursor
\* pos, up to the first call that returns no symbol and leaves the cursor
\* where it was.
RECURSIVE Alone(_, _)
Alone(buf, pos) ==
    LET r == next(buf, pos)
    IN  IF r.res.tag # "Some" /\ r.pos = pos THEN <<r.res>>
        ELSE <<r.res>> \o Alone(buf, r.pos)

---------------------------------------------------------------------------
(* Properties                                                              *)

\* C1: no symbol returned by next() or skip_to() has raw kind S_ALIGN or
\* S_SKIP, from any cursor position of any stream.
C1_NoPaddingYielded ==
    \A h \in Handles :
        /\ iters[h].last.tag = "Some" =>
               raw_kind(iters[h].last.data) \notin {K.S_ALIGN, K.S_SKIP}
        /\ \A n \in 1..Len(Out(iters[h])) :
               raw_kind(Out(iters[h])[n].data) \notin {K.S_ALIGN, K.S_SKIP}

\* A call that passed over at least one padding record and then returned
\* the record after it.
C1_Witness ==
    /\ iters[1].last.tag = "Some"
    /\ Len(Out(iters[1])) = 1
    /\ iters[1].last.index > iters[1].start
    /\ \E k \in 1..Len(layout) :
          /\ Boundary(layout, k - 1) = iters[1].start
          /\ raw_kind(layout[k]) \in {K.S_ALIGN, K.S_SKIP}

\* C2: started at a record boundary and not repositioned since, the symbols
\* next() has returned are the non-padding records after that boundary, in
\* stream order, each with exactly the record's length bytes as raw_bytes();
\* and next() stops only when all of them have been returned.
C2_YieldsRecordsInOrder ==
    \A h \in Handles : \A k \in 0..Len(layout) :
        (iters[h].live /\ iters[h].start = Boundary(layout, k)) =>
            LET expected == Bodies_of(RecordsFrom(layout, k))
            IN  /\ IsPrefix(Data_of(Out(iters[h])), expected)
                /\ Stopped(iters[h]) => Data_of(Out(iters[h])) = expected

\* Two different records have been returned, with a padding record between
\* them in the stream.
C2_Witness ==
    /\ iters[1].start = 0
    /\ Len(Out(iters[1])) = 2
    /\ Len(layout) = 3
    /\ raw_kind(layout[2]) \in {K.S_ALIGN, K.S_SKIP}
    /\ Out(iters[1])[1].data # Out(iters[1])[2].data
    /\ iters[1].last.tag = "None"

\* C3 (as amended): index() of a yielded symbol is the offset of the
\* record's 2-byte length prefix: the prefix is read at index(), and the
\* kind field and the rest of the body start 2 bytes later.
C3_IndexIsPrefixOffset ==
    \A h \in Handles :
        iters[h].last.tag = "Some" =>
            LET s == iters[h].last
            IN  /\ s.index = iters[h].at
                /\ U16At(stream, s.index) = Len(s.data)
                /\ SubSeq(stream, s.index + 3, s.index + 2 + Len(s.data)) = s.data

\* A symbol yielded from a record that is not the first of the stream.
C3_Witness ==
    /\ iters[1].last.tag = "Some"
    /\ iters[1].last.index > 0
    /\ Len(Out(iters[1])) = 2

\* C3 (as written): index() is the offset of the record's kind field, the
\* offset right after the length prefix.
C3_IndexIsKindOffset ==
    \A h \in Handles :
        iters[h].last.tag = "Some" =>
            /\ iters[h].last.index = iters[h].at + 2
            /\ SubSeq(stream, iters[h].last.index + 1,
                      iters[h].last.index + Len(iters[h].last.data))
                 = iters[h].last.data

\* The results of sequential iteration from the start of the stream.
Sequential == Alone(stream, 0)

\* C4: for every symbol s returned by sequential iteration, an iterator
\* placed at s.index() (by seek, skip_to or iter_at, from whatever state it
\* was in) returns s from its first next(), and its later calls return what
\* the calls after s returned in the sequential iteration.
C4_SeekToIndexResumes ==
    \A h \in Handles : \A n \in 1..Len(Sequential) :
        ( /\ iters[h].live
          /\ Sequential[n].tag = "Some"
          /\ iters[h].sought = Sequential[n].index ) =>
            IsPrefix(iters[h].log, SubSeq(Sequential, n, Len(Sequential)))

\* An iterator placed by seek at the second symbol's index has returned it
\* and the one after it, and then Ok(None).
C4_Witness ==
    /\ Len(Sequential) = 4
    /\ Sequential[4] = OkNone
    /\ Sequential[2].tag = "Some"
    /\ Sequential[3].tag = "Some"
    /\ iters[1].sought = Sequential[2].index
    /\ iters[1].log = SubSeq(Sequential, 2, 4)

\* C5: when the length read by the last loop pass of next() is 0 or 1, the
\* call returns SymbolTooShort, whatever follows the length.
C5_ShortLengthIsError ==
    \A h \in Handles :
        ( /\ Returned(iters[h])
          /\ Remaining(stream, iters[h].at) >= 2
          /\ U16At(stream, iters[h].at) \in {0, 1} ) =>
            iters[h].last = Err("SymbolTooShort")

\* A length of 1 with a byte after it, read after a record was yielded.
C5_Witness ==
    /\ iters[1].last = Err("SymbolTooShort")
    /\ U16At(stream, iters[1].at) = 1
    /\ Remaining(stream, iters[1].at) > 2
    /\ Len(Out(iters[1])) >= 1

\* C6: next() returns Ok(None) only with zero bytes left at the cursor; with
\* one byte left, or with a declared length larger than what is left after
\* the prefix, it returns an error; a returned symbol has the declared length.
C6_NoneOnlyAtEnd ==
    \A h \in Handles :
        LET it   == iters[h]
            left == Remaining(stream, it.at)
        IN  Returned(it) =>
              /\ it.last = OkNone => left = 0
              /\ left = 1 => it.last.tag = "Err"
              /\ (left >= 2 /\ U16At(stream, it.at) > left - 2) =>
                     it.last.tag = "Err"
              /\ it.last.tag = "Some" =>
                     Len(it.last.data) = U16At(stream, it.at)

\* Ok(None) returned by a call that first passed over trailing padding.
C6_Witness ==
    /\ iters[1].last = OkNone
    /\ Out(iters[1]) = <<>>
    /\ iters[1].at > iters[1].start
    /\ iters[1].at = Len(stream)

\* C7: with two iterators over one stream, whatever the interleaving, the
\* calls of each have returned what they return when it runs alone from
\* where it was placed, and a step of one iterator changes neither the
\* other iterator nor the stream.
C7_Alone ==
    \A h \in Handles :
        iters[h].live =>
            /\ IsPrefix(iters[h].log, Alone(stream, iters[h].start))
            /\ iters[h].done => iters[h].log = Alone(stream, iters[h].start)

C7_Frame ==
    /\ stream' = stream
    /\ \A h \in Handles :
           iters'[h] # iters[h] =>
               \A g \in Handles \ {h} : iters'[g] = iters[g]

C7_IndependentIterators == []C7_Alone /\ [][C7_Frame]_vars

\* Both iterators are in the middle of the stream at different cursors,
\* each having yielded a symbol.
C7_Witness ==
    /\ iters[1].live /\ iters[2].live
    /\ iters[1].pos # iters[2].pos
    /\ Len(Out(iters[1])) = 2
    /\ Len(Out(iters[2])) = 1
    /\ ~iters[1].done /\ ~iters[2].done
    /\ iters[2].start > 0

\* C8: a call of next() returns, and every pass of its loop that does not
\* return moves the cursor forward by at least 4 bytes.
C8_Progress ==
    (pc = "loop" /\ pc' = "loop") => iters'[1].pos >= iters[1].pos + 4

C8_NextTerminates == (pc = "loop" ~> pc = "idle") /\ [][C8_Progress]_vars

\* Inside next(), at the end of the stream after passing over only padding.
C8_Witness ==
    /\ pc = "loop"
    /\ iters[1].pos = Len(stream)
    /\ Out(iters[1]) = <<>>
    /\ iters[1].pos >= iters[1].start + 8

\* C9: parse() of a record of at least 2 bytes whose kind no arm of the
\* dispatch lists returns UnimplementedSymbolKind with that kind, whatever
\* the payload; such a kind never decodes to a SymbolData value.
C9_UnknownKindIsError ==
    ( /\ parsed.tag # "NotCalled"
      /\ Len(sym.data) >= 2
      /\ raw_kind(sym.data) \notin DispatchKinds ) =>
        parsed = ErrKind(raw_kind(sym.data))

\* S_WITH32, a kind that starts_scope knows and the dispatch does not, with
\* a payload after it.
C9_Witness ==
    /\ Len(sym.data) > 2
    /\ raw_kind(sym.data) = K.S_WITH32
    /\ parsed = ErrKind(K.S_WITH32)

\* The variants whose structures carry parent and end, and the end markers.
ScopeOpeners ==
    {"Procedure", "ManagedProcedure", "Block", "Thunk", "SeparatedCode",
     "InlineSite"}

ScopeClosers == {"ScopeEnd", "ProcedureEnd", "InlineSiteEnd"}

\* C10: a symbol that parse() decodes to Procedure, ManagedProcedure, Block,
\* Thunk, SeparatedCode or InlineSite answers starts_scope() with true, and
\* one decoded to ScopeEnd, ProcedureEnd or InlineSiteEnd answers
\* ends_scope() with true.
C10_ScopeVariantsClassified ==
    parsed.tag = "Ok" =>
        /\ (parsed.variant \in ScopeOpeners /\ scope.starts # "unasked") =>
               scope.starts = "true"
        /\ (parsed.variant \in ScopeClosers /\ scope.ends # "unasked") =>
               scope.ends = "true"

\* A record whose payload is MaxPayload zero bytes: every fixed-width field
\* of a scope-opening layout and an empty name can be read from it.
LongPayload == Len(sym.data) = 2 + MaxPayload

\* C11: a record of a kind for which starts_scope() returns true, with a
\* long well-formed payload, parses successfully to a variant that carries
\* parent and end.
C11_ScopeKindsDecode ==
    ( /\ parsed.tag # "NotCalled"
      /\ LongPayload
      /\ starts_scope(sym.data) ) =>
        /\ parsed.tag = "Ok"
        /\ parsed.variant \in ScopeOpeners

\* C12: no symbol answers both starts_scope() and ends_scope() with true.
C12_ScopeSetsDisjoint ==
    /\ ~(starts_scope(sym.data) /\ ends_scope(sym.data))
    /\ ~(scope.starts = "true" /\ scope.ends = "true")

\* Both questions asked of a scope opener and of a scope closer.
C12_Witness ==
    /\ scope.starts = "true"
    /\ scope.ends = "false"
    /\ raw_kind(sym.data) = K.S_INLINESITE

\* C13: when a record decodes successfully, the consumed-byte count the
\* SymbolData decoder returns is the length of the record slice, also when
\* alignment padding follows the last field.
C13_ConsumesWholeRecord ==
    (parsed.tag = "Ok" /\ parsed.variant \in Decoded) =>
        parsed.used = Len(sym.data)

\* The values of a sequence of 4-byte entries.
Values(words) == [i \in 1..Len(words) |-> le(words[i])]

\* A function-list record written with no more invocation counts than
\* functions, and parsed.
ListParsed ==
    /\ layout.family = "list"
    /\ Len(layout.invocations) <= Len(layout.functions)
    /\ parsed.tag # "NotCalled"

\* C14: a caller/callee list written with count n and n function entries
\* decodes to the functions [f1, ..., fn], each read from its own 4 bytes,
\* and none of the entries turns up among the invocation counts.
C14_FunctionsDecoded ==
    ListParsed =>
        /\ parsed.tag = "Ok"
        /\ parsed.val.functions = Values(layout.functions)
        /\ \A i \in 1..Len(parsed.val.invocations) :
               \A j \in 1..Len(layout.functions) :
                   parsed.val.invocations[i] # le(layout.functions[j])

\* C15: a function list written with n functions and k <= n invocation
\* counts decodes, without error, to n invocation counts: the k written
\* ones and then zeros.
C15_InvocationsPadded ==
    ListParsed =>
        /\ parsed.tag = "Ok"
        /\ parsed.val.invocations =
               resize(Values(layout.invocations), Len(layout.functions), 0)

\* A record of the DefRange family written with all its fixed fields, and
\* parsed.
GapsParsed ==
    /\ layout.family = "gaps"
    /\ layout.fixed = FixedSize(layout.kind)
    /\ parsed.tag # "NotCalled"

\* C16: a DefRange-family record with 1 to 3 bytes after its last whole gap
\* entry is reported as an error, never decoded with those bytes dropped.
C16_LeftoverIsError ==
    (GapsParsed /\ layout.leftover \in 1..3) => parsed.tag = "Err"

\* The header size the claim gives each variant.
HeaderSize(variant) ==
    IF variant \in {"DefRange", "DefRangeRegister",
                    "DefRangeFramePointerRelative"}
    THEN 16 ELSE 20

\* C17: a DefRange-family record with payload length p decodes to
\* floor((p + 4 - H) / 4) gaps, H being 16 or 20 by variant, and these are
\* the whole 4-byte entries that follow the fixed fields, in order.
C17_GapCount ==
    GapsParsed =>
        /\ parsed.tag = "Ok"
        /\ Len(parsed.val.gaps) =
               (Len(sym.data) - 2 + 4 - HeaderSize(parsed.variant)) \div 4
        /\ Len(parsed.val.gaps) =
               (Len(sym.data) - 2 - FixedSize(layout.kind)) \div 4
        /\ parsed.val.gaps =
               [i \in 1..Len(layout.gaps) |-> AddressGap(layout.gaps[i])]

\* Two different gaps and three more bytes after 16 bytes of fixed fields.
C17_Witness ==
    /\ GapsParsed
    /\ parsed.tag = "Ok"
    /\ parsed.variant = "DefRangeRegisterRelative"
    /\ Len(parsed.val.gaps) = 2
    /\ parsed.val.gaps[1] # parsed.val.gaps[2]
    /\ layout.leftover = 3

\* The payload of sym: its bytes after the kind.
Payload == SubSeq(sym.data, 3, Len(sym.data))

\* The payload offset of the marker byte, less the length of the name:
\* 0xb for register-variable and local records, 0xf for register-relative
\* and 0xd for base-pointer-relative ones.
MarkerOffset(kind) ==
    CASE kind \in {K.S_REGISTER, K.S_REGISTER_ST, K.S_LOCAL} -> 11
      [] kind = K.S_REGREL32 -> 15
      [] kind \in {K.S_BPREL32, K.S_BPREL32_ST, K.S_BPREL32_16T} -> 13

\* A record with a name and a slot to look for, parsed.
SlotParsed == layout.family = "slot" /\ parsed.tag # "NotCalled"

\* Where the marker byte is looked for, whether 0x24 is there, and the
\* number of bytes of the record after it.
MarkerAt == Len(layout.name) + MarkerOffset(layout.kind)

MarkerFound == MarkerAt < Len(Payload) /\ Payload[MarkerAt + 1] = 36

AfterMarker == Len(Payload) - (MarkerAt + 1)

\* C18: when the marker byte 0x24 is at its offset and fewer than 4 bytes
\* follow it, the record decodes successfully with no slot; parse() does
\* not return an error.
C18_ShortSlotIsAbsent ==
    (SlotParsed /\ MarkerFound /\ AfterMarker < 4) =>
        /\ parsed.tag = "Ok"
        /\ ~parsed.val.slot.present

\* The cursor after the name of a slot record: the bytes of the fixed
\* fields, the name, and its length byte or its NUL.
AfterName == SlotFixed(layout.kind) + Len(layout.name) + 1

\* The i32 that starts right after the marker byte.
SlotValue == le_i32(SubSeq(Payload, MarkerAt + 2, MarkerAt + 5))

GuardSize(kind) ==
    CASE kind \in {K.S_REGISTER, K.S_REGISTER_ST, K.S_LOCAL} -> 8
      [] kind = K.S_REGREL32 -> 12
      [] kind \in {K.S_BPREL32, K.S_BPREL32_ST, K.S_BPREL32_16T} -> 10

SlotGuard ==
    /\ Len(Payload) - Len(layout.name) - GuardSize(layout.kind) >= 6
    /\ MarkerFound

NameParsed ==
    layout.family \in {"slot", "label", "ref"} /\ parsed.tag # "NotCalled"

\* The number of payload bytes before the name.
NameAt ==
    CASE layout.family = "slot" -> SlotFixed(layout.kind)
      [] layout.family = "label" -> 7
      [] layout.family = "ref" -> 10

\* The two readings of the bytes at the name: one length byte and that many
\* bytes after it; the bytes before the first zero byte.
AsPascal == SubSeq(Payload, NameAt + 2, NameAt + 1 + Payload[NameAt + 1])

AsCString ==
    LET nul == CHOOSE i \in (NameAt + 1)..Len(Payload) :
                   /\ Payload[i] = 0
                   /\ \A j \in (NameAt + 1)..(i - 1) : Payload[j] # 0
    IN  SubSeq(Payload, NameAt + 1, nul - 1)

\* The name of the decoded record, as an optional value.
NameOf ==
    IF layout.family = "ref" THEN parsed.val.name
    ELSE SomeName(parsed.val.name)

\* C20 (as written): the name of every name-bearing record is the
\* length-prefixed string when kind < S_ST_MAX and the NUL-terminated string
\* when kind >= S_ST_MAX.
C20_NameByThresholdAlone ==
    (NameParsed /\ parsed.tag = "Ok") =>
        NameOf = SomeName(IF layout.kind < K.S_ST_MAX THEN AsPascal
                          ELSE AsCString)

\* C20 (as amended): a record whose name is mandatory has the
\* length-prefixed string as its name when kind < S_ST_MAX and the
\* NUL-terminated string when kind >= S_ST_MAX; a procedure-reference or
\* data-reference record, whose name is optional, has no name when
\* kind < S_ST_MAX, whatever bytes follow its fixed fields, and the
\* NUL-terminated string when kind >= S_ST_MAX.
C20_NameByThresholdAndOption ==
    (NameParsed /\ parsed.tag = "Ok") =>
        NameOf = IF layout.kind >= K.S_ST_MAX THEN SomeName(AsCString)
                 ELSE IF layout.family = "ref" THEN NoName
                 ELSE SomeName(AsPascal)

\* A legacy label named "th" followed by padding, where the two readings
\* differ, decoded with the length-prefixed one.
C20_Witness ==
    /\ NameParsed
    /\ layout.kind = K.S_LABEL32_ST
    /\ layout.padding > 0
    /\ AsPascal # AsCString
    /\ parsed.tag = "Ok"
    /\ parsed.val.name = <<116, 104>>

\* A reference record, once parse() has returned.
RefParsed ==
    layout.family \in {"ref", "namedref"} /\ parsed.tag # "NotCalled"

\* The 16-bit module value in the bytes of the record.
RawModule == le(layout.module)

\* C21: in procedure-reference, data-reference, annotation-reference and
\* token-reference records a raw module of 0 decodes to None and a raw
\* module N > 0 to Some(N - 1); 0xFFFF gives Some(0xFFFE).
C21_ModuleIsOneBased ==
    RefParsed =>
        /\ parsed.tag = "Ok"
        /\ RawModule = 0 => parsed.val.module = NoModule
        /\ RawModule > 0 => parsed.val.module = SomeModule(RawModule - 1)

\* A token reference with the raw module 0xFFFF decoded to Some(0xFFFE).
C21_Witness ==
    /\ RefParsed
    /\ parsed.tag = "Ok"
    /\ layout.kind = K.S_TOKENREF
    /\ RawModule = 65535
    /\ parsed.val.module = SomeModule(65534)

\* The variants whose payload structure has a name field: String, or
\* Option<String> in the three of AsDerefArms.
HasNameField == SomeNameArms \cup AsDerefArms \cup {"RegisterVariable"}

\* name() has been called on a decoded value.
NameAsked == parsed.tag = "Ok" /\ named.asked

\* The name field of the decoded value, as an optional value.
NameField ==
    IF parsed.variant \in AsDerefArms THEN parsed.val.name
    ELSE SomeName(parsed.val.name)

\* C22: name() returns the name field of every decoded variant that has
\* one, and None only for a variant without a name field or whose optional
\* name is absent.
C22_NameReturnsNameField ==
    NameAsked =>
        named.name = IF parsed.variant \in HasNameField THEN NameField
                     ELSE NoName

\* C22, for the variants other than RegisterVariable.
C22_NameOfOtherVariants ==
    (NameAsked /\ parsed.variant # "RegisterVariable") =>
        named.name = IF parsed.variant \in HasNameField THEN NameField
                     ELSE NoName

\* A scope-opening record, decoded.
ScopeParsed ==
    layout.family \in {"scope", "thunk"} /\ parsed.tag = "Ok"

\* The 32-bit parent value in the bytes of the record.
RawParent == le(layout.parent)

\* C23: in every scope-opening variant a raw parent of 0 decodes to an
\* absent parent and a non-zero raw parent v to the index v.
C23_ParentZeroIsAbsent ==
    ScopeParsed =>
        parsed.val.parent = IF RawParent = 0 THEN NoIndex
                            ELSE SomeIndex(RawParent)

\* C23, for the variants other than Block and SeparatedCode.
C23_ParentOfOtherVariants ==
    (ScopeParsed /\ parsed.variant \notin {"Block", "SeparatedCode"}) =>
        parsed.val.parent = IF RawParent = 0 THEN NoIndex
                            ELSE SomeIndex(RawParent)

\* A DefRange-family record written with fewer bytes than its fixed fields
\* take, and parsed.
ShortGapsParsed ==
    /\ layout.family = "gaps"
    /\ layout.fixed < FixedSize(layout.kind)
    /\ parsed.tag # "NotCalled"

\* C24: a DefRange-family record whose payload is shorter than the fixed
\* fields makes parse() return an error: neither an abort on the
\* subtraction len + 4 - H nor a successful decode.
C24_ShortPayloadIsError == ShortGapsParsed => parsed.tag = "Err"

\* C24, for a build without overflow checks and for one with them.
C24_ShortPayloadNeverDecodes ==
    ShortGapsParsed => parsed.tag \in {"Err", "Panic"}

\* An inlinees record made of whole 4-byte entries, and parsed.
InlineesParsed ==
    /\ layout.family = "inlinees"
    /\ layout.leftover = 0
    /\ parsed.tag # "NotCalled"

\* C26 (as written): the decoded list of an inlinees record holds every
\* 4-byte entry after the count, whatever the count says, and a count that
\* differs from the number of entries is no error.
C26_CountIsIgnored ==
    InlineesParsed =>
        /\ parsed.tag = "Ok"
        /\ parsed.val.inlinees = Values(layout.inlinees)

\* C26 (as amended): parse() of an inlinees record made of whole 4-byte
\* entries either returns the list of every entry after the count, whatever
\* the count says, or, in a build with debug assertions and only when the
\* count differs from the number of entries, panics; it never returns an
\* error and never a list cut or padded to the count.
C26_CountIsOnlyAsserted ==
    InlineesParsed =>
        /\ parsed.tag \in {"Ok", "Panic"}
        /\ parsed.tag = "Ok" => parsed.val.inlinees = Values(layout.inlinees)
        /\ parsed.tag = "Panic" => layout.count # Len(layout.inlinees)

\* A record whose count says 1 and which holds 3 entries, decoded to the 3.
C26_Witness ==
    /\ InlineesParsed
    /\ layout.count = 1
    /\ Len(layout.inlinees) = 3
    /\ parsed.tag = "Ok"
    /\ Len(parsed.val.inlinees) = 3

\* C27: every symbol the iterator yields has at least 2 bytes, so that its
\* raw_kind() is the little-endian 16-bit value of its first two bytes and
\* not the default of a slice shorter than that.
C27_YieldedHasKind ==
    \A h \in Handles :
        /\ iters[h].last.tag = "Some" =>
               /\ Len(iters[h].last.data) >= 2
               /\ raw_kind(iters[h].last.data) = U16At(iters[h].last.data, 0)
        /\ \A n \in 1..Len(Out(iters[h])) :
               /\ Len(Out(iters[h])[n].data) >= 2
               /\ raw_kind(Out(iters[h])[n].data)
                      = U16At(Out(iters[h])[n].data, 0)

\* A yielded symbol of the least length, 2 bytes, whose kind is S_END, in a
\* stream that ends with a record of declared length 1.
C27_Witness ==
    /\ iters[1].last.tag = "Some"
    /\ Len(iters[1].last.data) = 2
    /\ raw_kind(iters[1].last.data) = K.S_END
    /\ Len(stream) >= 3
    /\ SubSeq(stream, Len(stream) - 2, Len(stream)) = <<1, 0, 6>>

\* C28: when next() returns an error the cursor is where it was before the
\* call (so not past the place where the last loop pass started), and the
\* next call returns the same error.
C28_ErrorLeavesCursor ==
    \A h \in Handles :
        iters[h].last.tag = "Err" =>
            /\ iters[h].pos = iters[h].at
            /\ next(stream, iters[h].pos).res = iters[h].last

\* C28, for the one error that reads nothing: a single byte left, too few
\* for a length.
C28_LoneByteLeavesCursor ==
    \A h \in Handles :
        (iters[h].last.tag = "Err" /\ Remaining(stream, iters[h].at) = 1) =>
            /\ iters[h].pos = iters[h].at
            /\ next(stream, iters[h].pos).res = iters[h].last

\* C29: once next() has returned Ok(None), every later call without a seek
\* in between returns Ok(None) and leaves the cursor unchanged.
C29_NoneIsFinal ==
    \A h \in Handles :
        /\ iters[h].last = OkNone =>
               /\ next(stream, iters[h].pos).res = OkNone
               /\ next(stream, iters[h].pos).pos = iters[h].pos
        /\ \A n \in 1..Len(iters[h].log) :
               iters[h].log[n] = OkNone =>
                   \A m \in n..Len(iters[h].log) : iters[h].log[m] = OkNone

\* Two calls in a row that returned Ok(None), after a symbol was yielded.
C29_Witness ==
    /\ Len(iters[1].log) >= 3
    /\ iters[1].log[1].tag = "Some"
    /\ iters[1].log[Len(iters[1].log) - 1] = OkNone
    /\ iters[1].log[Len(iters[1].log)] = OkNone
    /\ iters[1].last = OkNone

\* A thunk record, and parsed.
ThunkParsed == layout.family = "thunk" /\ parsed.tag # "NotCalled"

\* The ThunkKind the ordinal and the extra data of the record stand for.
ThunkKindWritten ==
    CASE layout.ord = 0 -> ThunkKind("NoType", 0, <<>>)
      [] layout.ord = 1 -> ThunkKind("Adjustor", 8, <<98>>)
      [] layout.ord = 2 -> ThunkKind("VCall", 5, <<>>)
      [] layout.ord = 3 -> ThunkKind("PCode", 0, <<>>)
      [] OTHER -> ThunkKind("Unknown", layout.ord, <<>>)

\* The record decodes to the name, the sub-kind and the extra data it was
\* written from.
ThunkDecoded ==
    /\ parsed.tag = "Ok"
    /\ parsed.val.name = layout.name
    /\ parsed.val.kind = ThunkKindWritten

\* C25 (as written): the sub-kind ordinal of a thunk is the byte that
\* follows the name, and the extra data of the sub-kind follows the ordinal.
C25_OrdinalAfterName ==
    (ThunkParsed /\ ~layout.ord_first) => ThunkDecoded

\* C25 (as amended): the sub-kind ordinal of a thunk is the byte between
\* the len field and the name, and the extra data of the sub-kind (adjustor
\* delta and target name, or virtual-call table index) follows the name.
C25_OrdinalBeforeName ==
    (ThunkParsed /\ layout.ord_first) => ThunkDecoded

\* An adjustor thunk named "th", its ordinal written before the name,
\* decoded with delta 8 and target "b".
C25_Witness ==
    /\ ThunkParsed
    /\ layout.ord_first
    /\ layout.name = <<116, 104>>
    /\ parsed.tag = "Ok"
    /\ parsed.val.kind = ThunkKind("Adjustor", 8, <<98>>)

\* The length test that guards the sniff, and by how much it passes.
GuardMargin == Len(Payload) - Len(layout.name) - GuardSize(layout.kind)

\* C30: in the four slot-sniffing decoders, whenever the length test that
\* guards the sniff passes, the marker byte and the start of the slot
\* sub-slice are inside the payload: the decoder never indexes outside the
\* record (which would be a panic).
C30_SniffStaysInside ==
    SlotParsed =>
        /\ parsed.tag # "Panic"
        /\ GuardMargin >= 6 =>
               /\ MarkerAt < Len(Payload)
               /\ MarkerAt + 1 <= Len(Payload)

\* A record on which the length test passes by nothing (exactly 6) and the
\* marker is found: only 2 bytes follow the marker.
C30_Witness ==
    /\ SlotParsed
    /\ GuardMargin = 6
    /\ MarkerFound
    /\ AfterMarker = 2

=============================================================================
